---- MODULE Spec2Model ----
(***************************************************************************)
(* The view/interaction state machines of the series visualizer            *)
(* (src/series/main.c) and of the domain-coloring visualizer               *)
(* (src/coloring/main.c, second program of the file).  One main-loop       *)
(* iteration ("frame") is one action: it reads the frame's input and runs  *)
(* every input block of the loop body in program order, then the render    *)
(* decision.  Doubles and floats are modelled as exact rationals <<n, d>>. *)
(***************************************************************************)
EXTENDS Integers, Sequences, FiniteSets, TLC

VARIABLES
    prog,            \* which program was launched: "series" or "coloring"
    run,             \* position of main(): "start", "loop" or "exit"
    exitCode,        \* value returned by main(), -1 while running
    params,          \* series: VisualizationParams params
    coloring,        \* coloring: the locals scale, centerX, centerY,
                     \* current_function and the fields of coloring_params
    status_message,  \* coloring: StatusMessage status_message
    pixels,          \* Color *pixels: "unset", "NULL", "buffer" or "freed"
    needsUpdate,     \* value of the frame-local needsUpdate when the input blocks are done
    rendered,        \* whether the last frame invoked the raster renderer
    inputSeen,       \* whether the last frame's input held any event
    unitI,           \* what the build's <complex.h> defines I as
    eval,            \* one evaluator call: its arguments and what it returned
    pass,            \* one render pass: its arguments and what it wrote
    bilinear         \* bilinear: the globals a, b, c, d and the show* locals of main()

vars == <<prog, run, exitCode, params, coloring, status_message, pixels,
          needsUpdate, rendered, inputSeen, unitI, eval, pass, bilinear>>

\* the variables of the main loops, and those of single calls
loopVars == <<prog, run, exitCode, params, coloring, status_message, pixels,
              needsUpdate, rendered, inputSeen>>
callVars == <<unitI, eval, pass, bilinear>>

-----------------------------------------------------------------------------
(* Exact rational arithmetic for the double / float fields.                *)

RECURSIVE GCD(_, _)
GCD(a, b) == IF b = 0 THEN a ELSE GCD(b, a % b)

Abs(x) == IF x < 0 THEN -x ELSE x

\* the reduced fraction n/d with a positive denominator
Rat(n, d) ==
    LET s == IF d < 0 THEN -1 ELSE 1
        g == GCD(Abs(n), Abs(d))
    IN  <<(s * n) \div g, (s * d) \div g>>

RAdd(a, b) == Rat(a[1] * b[2] + b[1] * a[2], a[2] * b[2])
RSub(a, b) == Rat(a[1] * b[2] - b[1] * a[2], a[2] * b[2])
RMul(a, b) == Rat(a[1] * b[1], a[2] * b[2])
RDiv(a, b) == Rat(a[1] * b[2], a[2] * b[1])
RLess(a, b) == a[1] * b[2] < b[1] * a[2]
RLeq(a, b) == a[1] * b[2] <= b[1] * a[2]
RAbs(a) == <<Abs(a[1]), a[2]>>
RInt(k) == <<k, 1>>
RZero == RInt(0)


-----------------------------------------------------------------------------
(* Bounds of the exploration.                                              *)

\* a zoom tick is taken only while scale * 5^MaxZoomDepth stays an integer
MaxZoomDepth == 0
\* a pan is taken only while the center stays within MaxPan/100 of the origin
MaxPan == 1
\* pointer deltas of a drag frame are drawn from -MaxDelta..MaxDelta per axis
MaxDelta == 1
\* a session holds at most MaxChanged view/parameter fields away from their
\* program-start values at one time
MaxChanged == 1
\* the bilinear program holds at most MaxAdjusted parts of a, b, c, d away
\* from the reset or preset values at one time
MaxAdjusted == 1
\* and at most MaxToggled of its show* flags away from their startup values
MaxToggled == 1

RECURSIVE Pow(_, _)
Pow(b, e) == IF e = 0 THEN 1 ELSE b * Pow(b, e - 1)

ZoomInBound(s) == (Pow(5, MaxZoomDepth) * s[1]) % s[2] = 0
PanInBound(c) == Abs(c[1]) * 100 <= MaxPan * c[2]

-----------------------------------------------------------------------------
(* Series program: src/series/main.c                                       *)

SERIES_SCREEN_WIDTH == 1200
SERIES_SCREEN_HEIGHT == 800
MAX_TERMS == 20

FUNC_EXP == 0
FUNC_SIN == 1
FUNC_LOG == 2
FUNC_INVERSE == 3
FUNC_COUNT == 4

SERIES_TAYLOR == 0
SERIES_LAURENT == 1

VIEW_ORIGINAL == 0
VIEW_APPROXIMATION == 1
VIEW_ERROR == 2
VIEW_SPLIT == 3

\* VisualizationParams params = { ... } at the start of main()
SeriesDefaults ==
    [centerX |-> RZero, centerY |-> RZero, scale |-> RInt(100),
     num_terms |-> 5, func_type |-> FUNC_EXP, series_type |-> SERIES_TAYLOR,
     view_mode |-> VIEW_SPLIT, show_phase_lines |-> TRUE,
     show_modulus_lines |-> TRUE, line_thickness |-> Rat(5, 100)]

\* Rectangle { x, y, width, height } of the series control buttons
termButton == <<10, SERIES_SCREEN_HEIGHT - 110, 150, 30>>
functionButton == <<170, SERIES_SCREEN_HEIGHT - 110, 150, 30>>
seriesTypeButton == <<330, SERIES_SCREEN_HEIGHT - 110, 150, 30>>
viewModeButton == <<490, SERIES_SCREEN_HEIGHT - 110, 150, 30>>
phaseLineButton == <<10, SERIES_SCREEN_HEIGHT - 70, 150, 30>>
modulusLineButton == <<170, SERIES_SCREEN_HEIGHT - 70, 150, 30>>
resetButton == <<490, SERIES_SCREEN_HEIGHT - 70, 150, 30>>

\* raylib's point-in-rectangle test used by every button block
CheckCollisionPointRec(point, rec) ==
    /\ point[1] >= rec[1] /\ point[1] < rec[1] + rec[3]
    /\ point[2] >= rec[2] /\ point[2] < rec[2] + rec[4]

\* The frame's input as raylib reports it: the primary button is held
\* (IsMouseButtonDown) or was let go this frame (IsMouseButtonReleased), never
\* both; pos is GetMousePosition(), delta GetMouseDelta(), wheel
\* GetMouseWheelMove(), keys the keys for which IsKeyPressed is true.
IdleMouse == [down |-> FALSE, released |-> FALSE, pos |-> <<0, 0>>, delta |-> <<0, 0>>]

Deltas == {<<0, 0>>} \cup {<<dx, 0>> : dx \in {-MaxDelta, MaxDelta}}
                     \cup {<<0, dy>> : dy \in {-MaxDelta, MaxDelta}}

\* pointer states tried: the button held at the first point (the render
\* area) with each delta, held at every other point while moving, and let go
\* at every point
Held(q, dl) == [down |-> TRUE, released |-> FALSE, pos |-> q, delta |-> dl]
LetGo(q) == [down |-> FALSE, released |-> TRUE, pos |-> q, delta |-> <<0, 0>>]

MouseStates(points) ==
    {Held(points[1], dl) : dl \in Deltas}
    \cup {Held(points[i], <<MaxDelta, -MaxDelta>>) : i \in 2..Len(points)}
    \cup {LetGo(points[i]) : i \in 1..Len(points)}

EventCount(in) ==
    (IF in.mouse.down \/ in.mouse.released THEN 1 ELSE 0)
    + (IF in.wheel # 0 THEN 1 ELSE 0) + Cardinality(in.keys)

Input(m, w, K) == [mouse |-> m, wheel |-> w, keys |-> K]

NoInput == Input(IdleMouse, 0, {})

\* pointer states that share a frame with a wheel tick or a key: a drag in the
\* render area and a release at every point
PairedMouseStates(points) ==
    {Held(points[1], <<MaxDelta, 0>>)}
    \cup {LetGo(points[i]) : i \in 1..Len(points)}

\* a frame's input: nothing, one event (a pointer state, a wheel tick or a
\* key), or two events at once (two keys, or two of pointer, wheel and key)
FrameInputs(points, keys) ==
    LET mice == MouseStates(points)
        paired == PairedMouseStates(points)
        ticks == {-1, 1}
    IN  {NoInput}
        \cup {Input(m, 0, {}) : m \in mice}
        \cup {Input(IdleMouse, w, {}) : w \in ticks}
        \cup {Input(IdleMouse, 0, {k}) : k \in keys}
        \cup {Input(IdleMouse, 0, {k1, k2}) : k1 \in keys, k2 \in keys}
        \cup {Input(m, w, {}) : m \in paired, w \in ticks}
        \cup {Input(m, 0, {k}) : m \in paired, k \in keys}
        \cup {Input(IdleMouse, w, {k}) : w \in ticks, k \in keys}

\* pointer positions tried: the render area, the gap of the control strip,
\* and a point inside each button
SeriesPoints ==
    <<<<600, 300>>, <<700, 750>>, <<85, 705>>, <<245, 705>>, <<405, 705>>,
      <<565, 705>>, <<85, 745>>, <<245, 745>>, <<565, 745>>>>

SeriesKeys == {"UP", "DOWN", "LEFT", "RIGHT", "T", "L", "V", "P", "M", "R", "C"}

SeriesInputs == FrameInputs(SeriesPoints, SeriesKeys)

Released(in, rec) == CheckCollisionPointRec(in.mouse.pos, rec) /\ in.mouse.released

\* the point of the plane shown at pixel (x, y) of a pass of the given size:
\* "double re = ((x - width/2) / params.scale) + params.centerX;
\*  double im = ((height/2 - y) / params.scale) + params.centerY;"
ViewCoordinate(x, y, width, height, p) ==
    <<RAdd(RDiv(RInt(x - (width \div 2)), p.scale), p.centerX),
      RAdd(RDiv(RInt((height \div 2) - y), p.scale), p.centerY)>>

\* Each input block of the loop body maps the frame state s = [p, nu]
\* (params and the local needsUpdate) to the frame state after the block.
Touch(s, p) == [p |-> p, nu |-> TRUE]

\* a pan that moves the center with the pointer instead of against it
SeriesPan_WithPointer(s, in) ==
    IF in.mouse.down /\ in.mouse.pos[2] < SERIES_SCREEN_HEIGHT - 120
    THEN Touch(s, [s.p EXCEPT
            !.centerX = RAdd(@, RDiv(RInt(in.mouse.delta[1]), s.p.scale)),
            !.centerY = RSub(@, RDiv(RInt(in.mouse.delta[2]), s.p.scale))])
    ELSE s

\* "if (IsMouseButtonDown(MOUSE_LEFT_BUTTON) && GetMouseY() < SCREEN_HEIGHT - 120)"
SeriesPan(s, in) ==
    IF in.mouse.down /\ in.mouse.pos[2] < SERIES_SCREEN_HEIGHT - 120
    THEN Touch(s, [s.p EXCEPT
            !.centerX = RSub(@, RDiv(RInt(in.mouse.delta[1]), s.p.scale)),
            !.centerY = RAdd(@, RDiv(RInt(in.mouse.delta[2]), s.p.scale))])
    ELSE s

SeriesWheel(s, in) ==
    IF in.wheel # 0
    THEN Touch(s, [s.p EXCEPT
            !.scale = RMul(@, IF in.wheel > 0 THEN Rat(12, 10) ELSE Rat(8, 10))])
    ELSE s

SeriesTermButton(s, in) ==
    IF Released(in, termButton)
    THEN Touch(s, [s.p EXCEPT !.num_terms = (@ % MAX_TERMS) + 1])
    ELSE s

SeriesFunctionButton(s, in) ==
    IF Released(in, functionButton)
    THEN Touch(s, [s.p EXCEPT !.func_type = (@ + 1) % FUNC_COUNT])
    ELSE s

SeriesSeriesTypeButton(s, in) ==
    IF Released(in, seriesTypeButton)
    THEN Touch(s, [s.p EXCEPT !.series_type =
            IF @ = SERIES_TAYLOR THEN SERIES_LAURENT ELSE SERIES_TAYLOR])
    ELSE s

SeriesViewModeButton(s, in) ==
    IF Released(in, viewModeButton)
    THEN Touch(s, [s.p EXCEPT !.view_mode = (@ + 1) % 4])
    ELSE s

SeriesPhaseLineButton(s, in) ==
    IF Released(in, phaseLineButton)
    THEN Touch(s, [s.p EXCEPT !.show_phase_lines = ~@])
    ELSE s

SeriesModulusLineButton(s, in) ==
    IF Released(in, modulusLineButton)
    THEN Touch(s, [s.p EXCEPT !.show_modulus_lines = ~@])
    ELSE s

SeriesResetButton(s, in) ==
    IF Released(in, resetButton)
    THEN Touch(s, [s.p EXCEPT !.centerX = RZero, !.centerY = RZero,
                              !.scale = RInt(100)])
    ELSE s

\* the Up key without the "num_terms < MAX_TERMS" test
SeriesKeyUp_NoClamp(s, in) ==
    IF "UP" \in in.keys
    THEN Touch(s, [s.p EXCEPT !.num_terms = @ + 1])
    ELSE s

SeriesKeyUp(s, in) ==
    IF "UP" \in in.keys
    THEN Touch(s, IF s.p.num_terms < MAX_TERMS
                  THEN [s.p EXCEPT !.num_terms = @ + 1] ELSE s.p)
    ELSE s

\* the Down key without the "num_terms > 1" test
SeriesKeyDown_NoClamp(s, in) ==
    IF "DOWN" \in in.keys
    THEN Touch(s, [s.p EXCEPT !.num_terms = @ - 1])
    ELSE s

SeriesKeyDown(s, in) ==
    IF "DOWN" \in in.keys
    THEN Touch(s, IF s.p.num_terms > 1
                  THEN [s.p EXCEPT !.num_terms = @ - 1] ELSE s.p)
    ELSE s

SeriesKeyLeftRight(s, in) ==
    IF "LEFT" \in in.keys \/ "RIGHT" \in in.keys
    THEN Touch(s, [s.p EXCEPT !.func_type =
            (@ + (IF "RIGHT" \in in.keys THEN 1 ELSE FUNC_COUNT - 1)) % FUNC_COUNT])
    ELSE s

SeriesKeyT(s, in) ==
    IF "T" \in in.keys
    THEN Touch(s, [s.p EXCEPT !.series_type = SERIES_TAYLOR])
    ELSE s

SeriesKeyL(s, in) ==
    IF "L" \in in.keys
    THEN Touch(s, [s.p EXCEPT !.series_type = SERIES_LAURENT])
    ELSE s

SeriesKeyV(s, in) ==
    IF "V" \in in.keys
    THEN Touch(s, [s.p EXCEPT !.view_mode = (@ + 1) % 4])
    ELSE s

SeriesKeyP(s, in) ==
    IF "P" \in in.keys
    THEN Touch(s, [s.p EXCEPT !.show_phase_lines = ~@])
    ELSE s

SeriesKeyM(s, in) ==
    IF "M" \in in.keys
    THEN Touch(s, [s.p EXCEPT !.show_modulus_lines = ~@])
    ELSE s

\* the R key without the "params.scale = 100.0" assignment
SeriesKeyR_KeepsScale(s, in) ==
    IF "R" \in in.keys
    THEN Touch(s, [s.p EXCEPT !.centerX = RZero, !.centerY = RZero])
    ELSE s

SeriesKeyR(s, in) ==
    IF "R" \in in.keys
    THEN Touch(s, [s.p EXCEPT !.centerX = RZero, !.centerY = RZero,
                              !.scale = RInt(100)])
    ELSE s

\* the input blocks of one loop iteration, in program order, from
\* "bool needsUpdate = false"
SeriesHandleInput(p, in) ==
    LET s0 == [p |-> p, nu |-> FALSE]
        s1 == SeriesPan(s0, in)
        s2 == SeriesWheel(s1, in)
        s3 == SeriesTermButton(s2, in)
        s4 == SeriesFunctionButton(s3, in)
        s5 == SeriesSeriesTypeButton(s4, in)
        s6 == SeriesViewModeButton(s5, in)
        s7 == SeriesPhaseLineButton(s6, in)
        s8 == SeriesModulusLineButton(s7, in)
        s9 == SeriesResetButton(s8, in)
        s10 == SeriesKeyUp(s9, in)
        s11 == SeriesKeyDown(s10, in)
        s12 == SeriesKeyLeftRight(s11, in)
        s13 == SeriesKeyT(s12, in)
        s14 == SeriesKeyL(s13, in)
        s15 == SeriesKeyV(s14, in)
        s16 == SeriesKeyP(s15, in)
        s17 == SeriesKeyM(s16, in)
    IN  SeriesKeyR(s17, in)

SeriesFields ==
    {"centerX", "centerY", "scale", "num_terms", "func_type", "series_type",
     "view_mode", "show_phase_lines", "show_modulus_lines"}

SeriesChanged(p) == Cardinality({f \in SeriesFields : p[f] # SeriesDefaults[f]})

SeriesInBound(p) ==
    /\ SeriesChanged(p) <= MaxChanged
    /\ ZoomInBound(p.scale)
    /\ PanInBound(p.centerX) /\ PanInBound(p.centerY)


-----------------------------------------------------------------------------
(* Coloring program: src/coloring/main.c, the program of lines 321-813     *)

COLORING_SCREEN_WIDTH == 800
COLORING_SCREEN_HEIGHT == 800

COLORING_FUNC_EXP == 0
COLORING_FUNC_SIN == 1
COLORING_FUNC_TAN == 2
COLORING_FUNC_INVERSE == 3
COLORING_FUNC_SQUARE == 4
COLORING_FUNC_SQUARE_MINUS_ONE == 5
COLORING_FUNC_POLY5_MINUS_Z == 6
COLORING_FUNC_COUNT == 7

STATUS_OK == 0
STATUS_MEMORY_ERROR == 1
STATUS_MATH_ERROR == 2
STATUS_RENDER_ERROR == 3

\* the locals of main() before the loop: scale, centerX, centerY,
\* current_function and coloring_params
ColoringDefaults ==
    [centerX |-> RZero, centerY |-> RZero, scale |-> RInt(100),
     current_function |-> COLORING_FUNC_EXP,
     show_phase_lines |-> TRUE, show_modulus_lines |-> TRUE,
     enhanced_contrast |-> TRUE, line_thickness |-> Rat(5, 100),
     saturation |-> Rat(9, 10), value |-> RInt(1),
     contrast_strength |-> RInt(1), anti_aliasing |-> 1]

\* StatusMessage status_message = { STATUS_OK, "", 0.0f, false }
StatusDefaults == [status |-> STATUS_OK, display_time |-> RZero, active |-> FALSE]

cFunctionButton == <<10, COLORING_SCREEN_HEIGHT - 70, 240, 30>>
cPhaseLineButton == <<10, COLORING_SCREEN_HEIGHT - 110, 160, 30>>
cModulusLineButton == <<180, COLORING_SCREEN_HEIGHT - 110, 190, 30>>
cContrastButton == <<380, COLORING_SCREEN_HEIGHT - 110, 210, 30>>
cResetButton == <<600, COLORING_SCREEN_HEIGHT - 110, 150, 30>>
cAntiAliasingButton == <<330, COLORING_SCREEN_HEIGHT - 70, 240, 30>>

\* pointer positions tried: the render area, the top margin, the gap of the
\* control strip, and a point inside each button
ColoringPoints ==
    <<<<400, 300>>, <<400, 10>>, <<780, 750>>, <<130, 745>>, <<90, 705>>,
      <<275, 705>>, <<485, 705>>, <<675, 705>>, <<450, 745>>>>

ColoringKeys ==
    {"RIGHT", "LEFT", "P", "M", "C", "A", "LEFT_BRACKET", "RIGHT_BRACKET",
     "MINUS", "EQUAL", "R"}

ColoringInputs == FrameInputs(ColoringPoints, ColoringKeys)

\* GetFrameTime() of a frame, in seconds
FrameTimes == {RInt(2)}

\* a clamp that lets values above max through
Clamp_NoUpperBound(value, min, max) ==
    IF RLess(value, min) THEN min ELSE value

\* "float Clamp(float value, float min, float max)"
Clamp(value, min, max) ==
    IF RLess(value, min) THEN min
    ELSE IF RLess(max, value) THEN max
    ELSE value

NextAntiAliasing(aa) == IF aa = 1 THEN 2 ELSE IF aa = 2 THEN 4 ELSE 1

ColoringPan(s, in) ==
    IF /\ in.mouse.down
       /\ in.mouse.pos[2] > 20
       /\ in.mouse.pos[2] < COLORING_SCREEN_HEIGHT - 120
    THEN Touch(s, [s.p EXCEPT
            !.centerX = RSub(@, RDiv(RInt(in.mouse.delta[1]), s.p.scale)),
            !.centerY = RAdd(@, RDiv(RInt(in.mouse.delta[2]), s.p.scale))])
    ELSE s

\* a wheel tick that adds to scale instead of multiplying it
ColoringWheel_Additive(s, in) ==
    IF in.wheel # 0
    THEN Touch(s, [s.p EXCEPT !.scale = RAdd(@, RInt(in.wheel * 50))])
    ELSE s

ColoringWheel(s, in) ==
    IF in.wheel # 0
    THEN Touch(s, [s.p EXCEPT
            !.scale = RMul(@, IF in.wheel > 0 THEN Rat(12, 10) ELSE Rat(8, 10))])
    ELSE s

ColoringFunctionButton(s, in) ==
    IF Released(in, cFunctionButton)
    THEN Touch(s, [s.p EXCEPT !.current_function = (@ + 1) % COLORING_FUNC_COUNT])
    ELSE s

ColoringPhaseLineButton(s, in) ==
    IF Released(in, cPhaseLineButton)
    THEN Touch(s, [s.p EXCEPT !.show_phase_lines = ~@])
    ELSE s

ColoringModulusLineButton(s, in) ==
    IF Released(in, cModulusLineButton)
    THEN Touch(s, [s.p EXCEPT !.show_modulus_lines = ~@])
    ELSE s

ColoringContrastButton(s, in) ==
    IF Released(in, cContrastButton)
    THEN Touch(s, [s.p EXCEPT !.enhanced_contrast = ~@])
    ELSE s

ColoringAntiAliasingButton(s, in) ==
    IF Released(in, cAntiAliasingButton)
    THEN Touch(s, [s.p EXCEPT !.anti_aliasing = NextAntiAliasing(@)])
    ELSE s

ColoringResetButton(s, in) ==
    IF Released(in, cResetButton)
    THEN Touch(s, [s.p EXCEPT !.centerX = RZero, !.centerY = RZero,
                              !.scale = RInt(100),
                              !.show_phase_lines = TRUE,
                              !.show_modulus_lines = TRUE,
                              !.enhanced_contrast = TRUE,
                              !.anti_aliasing = 1])
    ELSE s

ColoringKeyRight(s, in) ==
    IF "RIGHT" \in in.keys
    THEN Touch(s, [s.p EXCEPT !.current_function = (@ + 1) % COLORING_FUNC_COUNT])
    ELSE s

\* the Left key without the wrap to the last entry
ColoringKeyLeft_NoWrap(s, in) ==
    IF "LEFT" \in in.keys
    THEN Touch(s, [s.p EXCEPT !.current_function = @ - 1])
    ELSE s

ColoringKeyLeft(s, in) ==
    IF "LEFT" \in in.keys
    THEN Touch(s, [s.p EXCEPT !.current_function =
            (@ + COLORING_FUNC_COUNT - 1) % COLORING_FUNC_COUNT])
    ELSE s

ColoringKeyP(s, in) ==
    IF "P" \in in.keys
    THEN Touch(s, [s.p EXCEPT !.show_phase_lines = ~@])
    ELSE s

ColoringKeyM(s, in) ==
    IF "M" \in in.keys
    THEN Touch(s, [s.p EXCEPT !.show_modulus_lines = ~@])
    ELSE s

ColoringKeyC(s, in) ==
    IF "C" \in in.keys
    THEN Touch(s, [s.p EXCEPT !.enhanced_contrast = ~@])
    ELSE s

ColoringKeyA(s, in) ==
    IF "A" \in in.keys
    THEN Touch(s, [s.p EXCEPT !.anti_aliasing = NextAntiAliasing(@)])
    ELSE s

ColoringKeyLeftBracket(s, in) ==
    IF "LEFT_BRACKET" \in in.keys
    THEN Touch(s, [s.p EXCEPT !.saturation =
            Clamp(RSub(@, Rat(1, 10)), RZero, RInt(1))])
    ELSE s

ColoringKeyRightBracket(s, in) ==
    IF "RIGHT_BRACKET" \in in.keys
    THEN Touch(s, [s.p EXCEPT !.saturation =
            Clamp(RAdd(@, Rat(1, 10)), RZero, RInt(1))])
    ELSE s

ColoringKeyMinus(s, in) ==
    IF "MINUS" \in in.keys
    THEN Touch(s, [s.p EXCEPT !.contrast_strength =
            Clamp(RSub(@, Rat(2, 10)), Rat(2, 10), RInt(5))])
    ELSE s

ColoringKeyEqual(s, in) ==
    IF "EQUAL" \in in.keys
    THEN Touch(s, [s.p EXCEPT !.contrast_strength =
            Clamp(RAdd(@, Rat(2, 10)), Rat(2, 10), RInt(5))])
    ELSE s

\* the input blocks of one loop iteration, in program order, from
\* "bool needsUpdate = false"
ColoringHandleInput(p, in) ==
    LET s0 == [p |-> p, nu |-> FALSE]
        s1 == ColoringPan(s0, in)
        s2 == ColoringWheel(s1, in)
        s3 == ColoringFunctionButton(s2, in)
        s4 == ColoringPhaseLineButton(s3, in)
        s5 == ColoringModulusLineButton(s4, in)
        s6 == ColoringContrastButton(s5, in)
        s7 == ColoringAntiAliasingButton(s6, in)
        s8 == ColoringResetButton(s7, in)
        s9 == ColoringKeyRight(s8, in)
        s10 == ColoringKeyLeft(s9, in)
        s11 == ColoringKeyP(s10, in)
        s12 == ColoringKeyM(s11, in)
        s13 == ColoringKeyC(s12, in)
        s14 == ColoringKeyA(s13, in)
        s15 == ColoringKeyLeftBracket(s14, in)
        s16 == ColoringKeyRightBracket(s15, in)
        s17 == ColoringKeyMinus(s16, in)
    IN  ColoringKeyEqual(s17, in)

RaiseStatus(kind) == [status |-> kind, display_time |-> RInt(5), active |-> TRUE]

\* "if (needsUpdate) { ... }": allocOk is LoadImageColors returning non-NULL,
\* manyErrors is the pass ending with error_count > 1000
ColoringUpdate(st, nu, allocOk, manyErrors) ==
    IF ~nu THEN st
    ELSE IF allocOk
         THEN LET cleared == IF st.status = STATUS_RENDER_ERROR
                             THEN [st EXCEPT !.active = FALSE] ELSE st
              IN  IF manyErrors THEN RaiseStatus(STATUS_MATH_ERROR) ELSE cleared
         ELSE RaiseStatus(STATUS_MEMORY_ERROR)

\* the locals render_domain_coloring takes from its parameters:
\* "float saturation = params.saturation > 0 ? params.saturation : 0.85f;
\*  float baseValue = params.value > 0 ? params.value : 0.95f;
\*  float contrastStrength = params.contrast_strength > 0 ? params.contrast_strength : 1.0f;
\*  int aa_level = params.anti_aliasing > 0 ? params.anti_aliasing : 1;"
RenderLocals(p) ==
    [saturation |-> IF RLess(RZero, p.saturation) THEN p.saturation ELSE Rat(85, 100),
     baseValue |-> IF RLess(RZero, p.value) THEN p.value ELSE Rat(95, 100),
     contrastStrength |-> IF RLess(RZero, p.contrast_strength)
                          THEN p.contrast_strength ELSE RInt(1),
     aa_level |-> IF p.anti_aliasing > 0 THEN p.anti_aliasing ELSE 1]

\* the brightness apply_brightness computes:
\* "if (enhanced_contrast) {
\*      brightness = 0.5 * (1.0 - 1.0/(1.0 + log(1.0 + magnitude * contrast_strength)));
\*      brightness = powf(brightness, 0.75f);
\*  } else {
\*      brightness = 0.5 * (1.0 - 1.0/(1.0 + log(1.0 + magnitude)));
\*  }"
\* kept as the argument of log and the exponent that follows; libm does the rest
Brightness(magnitude, enhanced_contrast, contrast_strength) ==
    IF enhanced_contrast
    THEN [log_of |-> RAdd(RInt(1), RMul(magnitude, contrast_strength)),
          powf |-> Rat(75, 100)]
    ELSE [log_of |-> RAdd(RInt(1), magnitude), powf |-> RInt(1)]

\* the brightness of a subsample of magnitude m in a pass with parameters p:
\* "apply_brightness(color, magnitude, params.enhanced_contrast, contrastStrength)"
SampleBrightness(m, p) ==
    Brightness(m, p.enhanced_contrast, RenderLocals(p).contrastStrength)

\* "draw_color_legend(coloring_params.saturation, coloring_params.value)"
LegendArgs(p) == [saturation |-> p.saturation, value |-> p.value]

\* a message whose time runs down but which is never switched off
StatusTick_NeverExpires(st, dt) ==
    IF st.active THEN [st EXCEPT !.display_time = RSub(st.display_time, dt)] ELSE st

\* "if (status_message.active) { display_time -= GetFrameTime(); ... }"
StatusTick(st, dt) ==
    IF st.active
    THEN LET t == RSub(st.display_time, dt)
         IN  [st EXCEPT !.display_time = t, !.active = ~RLeq(t, RZero)]
    ELSE st

ColoringFields ==
    {"centerX", "centerY", "scale", "current_function", "show_phase_lines",
     "show_modulus_lines", "enhanced_contrast", "saturation",
     "contrast_strength", "anti_aliasing"}

ColoringChanged(p) == Cardinality({f \in ColoringFields : p[f] # ColoringDefaults[f]})

ColoringInBound(p) ==
    /\ ColoringChanged(p) <= MaxChanged
    /\ ZoomInBound(p.scale)
    /\ PanInBound(p.centerX) /\ PanInBound(p.centerY)

-----------------------------------------------------------------------------
(* The doubles of the evaluators.  A double is <<kind, m, e>>: "nan",      *)
(* "inf" with m = 1 or -1, or the finite value m * 10^e.  Finite results   *)
(* are rounded to DBL_DIGITS significant decimal digits (to nearest, ties  *)
(* to even), overflow to infinity above 10^DBL_MAX_10_EXP and flush to     *)
(* zero below 10^DBL_MIN_10_EXP.  Zero carries no sign.                    *)

DBL_DIGITS == 4
DBL_MAX_10_EXP == 308
DBL_MIN_10_EXP == -324

NaN == <<"nan", 0, 0>>
Inf(s) == <<"inf", s, 0>>
DZero == <<"fin", 0, 0>>

isnan(x) == x[1] = "nan"
isinf(x) == x[1] = "inf"
IsFinite(x) == x[1] = "fin"
Sgn(n) == IF n < 0 THEN -1 ELSE IF n > 0 THEN 1 ELSE 0

\* number of decimal digits of n >= 0 (n stays below 2^31)
NumDigits(n) ==
    IF n < 10 THEN 1 ELSE IF n < 100 THEN 2 ELSE IF n < 1000 THEN 3
    ELSE IF n < 10000 THEN 4 ELSE IF n < 100000 THEN 5 ELSE IF n < 1000000 THEN 6
    ELSE IF n < 10000000 THEN 7 ELSE IF n < 100000000 THEN 8
    ELSE IF n < 1000000000 THEN 9 ELSE 10

Pow10(k) ==
    <<1, 10, 100, 1000, 10000, 100000, 1000000, 10000000, 100000000,
      1000000000>>[k + 1]

RECURSIVE StripZeros(_)
\* <<n, e>> without the trailing zeros of n
StripZeros(t) ==
    IF t[1] # 0 /\ t[1] % 10 = 0 THEN StripZeros(<<t[1] \div 10, t[2] + 1>>) ELSE t

\* quotient q, remainder r of a cut at half: to nearest, ties to even
RoundUp(q, r, half, e) ==
    <<IF r > half \/ (r = half /\ q % 2 = 1) THEN q + 1 ELSE q, e>>
RoundAt(n, e, k) ==
    RoundUp(n \div Pow10(k), n % Pow10(k), 5 * Pow10(k - 1), e + k)
\* n >= 0 cut to DBL_DIGITS digits
RoundDigits(n, e) ==
    IF NumDigits(n) <= DBL_DIGITS THEN <<n, e>>
    ELSE RoundAt(n, e, NumDigits(n) - DBL_DIGITS)

\* sign s and <<n, e>> with decimal exponent top, inside the double range
InRange(s, t, top) ==
    IF top > DBL_MAX_10_EXP THEN Inf(s)
    ELSE IF top < DBL_MIN_10_EXP THEN DZero
    ELSE <<"fin", s * t[1], t[2]>>
Ranged(s, t) == InRange(s, t, t[2] + NumDigits(t[1]) - 1)

\* the double nearest to m * 10^e
Dbl(m, e) ==
    IF m = 0 THEN DZero ELSE Ranged(Sgn(m), StripZeros(RoundDigits(Abs(m), e)))

\* a finite non-zero double with its mantissa padded to DBL_DIGITS digits
PadBy(x, k) == <<x[2] * Pow10(k), x[3] - k>>
Padded(x) == PadBy(x, DBL_DIGITS - NumDigits(Abs(x[2])))

FNeg(x) == IF isnan(x) THEN x ELSE <<x[1], -x[2], x[3]>>

FMul(a, b) ==
    IF isnan(a) \/ isnan(b) THEN NaN
    ELSE IF isinf(a) \/ isinf(b)
         THEN IF a[2] = 0 \/ b[2] = 0 THEN NaN ELSE Inf(Sgn(a[2]) * Sgn(b[2]))
    ELSE Dbl(a[2] * b[2], a[3] + b[3])

\* hi + lo for padded operands, hi with the larger exponent: an addend below
\* half a unit in the last place of the other is absorbed
AddAligned(hi, lo) ==
    IF hi[2] - lo[2] > DBL_DIGITS + 1 THEN Dbl(hi[1], hi[2])
    ELSE Dbl(hi[1] * Pow10(hi[2] - lo[2]) + lo[1], lo[2])
AddPadded(pa, pb) ==
    IF pa[2] >= pb[2] THEN AddAligned(pa, pb) ELSE AddAligned(pb, pa)

FAdd(a, b) ==
    IF isnan(a) \/ isnan(b) THEN NaN
    ELSE IF isinf(a) /\ isinf(b) THEN IF a[2] = b[2] THEN a ELSE NaN
    ELSE IF isinf(a) THEN a
    ELSE IF isinf(b) THEN b
    ELSE IF a[2] = 0 THEN b
    ELSE IF b[2] = 0 THEN a
    ELSE AddPadded(Padded(a), Padded(b))

FSub(a, b) == FAdd(a, FNeg(b))

DivPadded(s, pa, pb) ==
    Dbl(s * ((Abs(pa[1]) * Pow10(DBL_DIGITS + 1)) \div Abs(pb[1])),
        pa[2] - pb[2] - (DBL_DIGITS + 1))

FDiv(a, b) ==
    IF isnan(a) \/ isnan(b) THEN NaN
    ELSE IF isinf(a) THEN IF isinf(b) THEN NaN
                          ELSE Inf(a[2] * (IF b[2] < 0 THEN -1 ELSE 1))
    ELSE IF isinf(b) THEN DZero
    ELSE IF b[2] = 0 THEN IF a[2] = 0 THEN NaN ELSE Inf(Sgn(a[2]))
    ELSE IF a[2] = 0 THEN DZero
    ELSE DivPadded(Sgn(a[2]) * Sgn(b[2]), Padded(a), Padded(b))

\* a < b; false when either is NaN
FLess(a, b) ==
    IF isnan(a) \/ isnan(b) THEN FALSE
    ELSE IF isinf(a) THEN a[2] < 0 /\ ~(isinf(b) /\ b[2] < 0)
    ELSE IF isinf(b) THEN b[2] > 0
    ELSE FSub(a, b)[2] < 0

FGreater(a, b) == FLess(b, a)
FLeq(a, b) == ~isnan(a) /\ ~isnan(b) /\ ~FLess(b, a)
FromInt(k) == Dbl(k, 0)

-----------------------------------------------------------------------------
(* Complex values and the evaluators.  A complex double is [re, im]; the   *)
(* value of a libm call the model does not compute (cexp, csin, clog,      *)
(* the quotient csin/ccos) is kept as [lib, arg], a finite value of        *)
(* ordinary magnitude.  An evaluator takes the bool its error pointer      *)
(* points at and returns [value, error], the returned value and the bool   *)
(* after the call.                                                         *)

Cx(re, im) == [re |-> re, im |-> im]
Lib(name, z) == [lib |-> name, arg |-> z]
IsLib(v) == "lib" \in DOMAIN v
creal(z) == z.re
cimag(z) == z.im

\* "return 0.0": the double converted to double complex
CZero == Cx(DZero, DZero)
COne == Cx(FromInt(1), DZero)

HUGE_VAL == Inf(1)

\* "HUGE_VAL + HUGE_VAL * I".  With I the complex constant 0 + 1i
\* (_Complex_I) the product is taken per component, inf * 0 included; with I
\* an imaginary constant (_Imaginary_I) the product is purely imaginary.
HugeSentinel ==
    IF unitI = "_Complex_I"
    THEN Cx(FAdd(HUGE_VAL, FMul(HUGE_VAL, DZero)), FMul(HUGE_VAL, FromInt(1)))
    ELSE Cx(HUGE_VAL, HUGE_VAL)

CAdd(a, b) == Cx(FAdd(a.re, b.re), FAdd(a.im, b.im))
CSub(a, b) == Cx(FSub(a.re, b.re), FSub(a.im, b.im))
CMul(a, b) == Cx(FSub(FMul(a.re, b.re), FMul(a.im, b.im)),
                 FAdd(FMul(a.re, b.im), FMul(a.im, b.re)))
CNeg(a) == Cx(FNeg(a.re), FNeg(a.im))
CDivReal(a, r) == Cx(FDiv(a.re, r), FDiv(a.im, r))
CMulReal(r, a) == Cx(FMul(r, a.re), FMul(r, a.im))
\* "1.0 / z"
Norm2(v) == FAdd(FMul(v.re, v.re), FMul(v.im, v.im))
ConjOver(z, den) == Cx(FDiv(z.re, den), FDiv(FNeg(z.im), den))
CInverse(z) == ConjOver(z, Norm2(z))

\* "cabs(v) < t" and "cabs(v) > t", compared through the squares
CabsLess(v, t) == ~IsLib(v) /\ FLess(Norm2(v), FMul(t, t))
CabsGreater(v, t) == ~IsLib(v) /\ FGreater(Norm2(v), FMul(t, t))

\* "isnan(creal(z)) || isnan(cimag(z)) || isinf(creal(z)) || isinf(cimag(z))"
NonFinite(z) ==
    isnan(creal(z)) \/ isnan(cimag(z)) \/ isinf(creal(z)) \/ isinf(cimag(z))

Returns(value, error) == [value |-> value, error |-> error]

\* the exact evaluator without "*error = false"
eval_original_function_NoReset(z, type, error) ==
    LET reset == error
    IN  IF NonFinite(z) THEN Returns(CZero, TRUE)
        ELSE IF type = FUNC_EXP
             THEN IF FGreater(creal(z), Dbl(700, 0))
                  THEN Returns(HugeSentinel, TRUE)
                  ELSE Returns(Lib("cexp", z), reset)
        ELSE IF type = FUNC_SIN THEN Returns(Lib("csin", z), reset)
        ELSE IF type = FUNC_LOG
             THEN IF CabsLess(z, Dbl(1, -10))
                  THEN Returns(HugeSentinel, TRUE)
                  ELSE Returns(Lib("clog", z), reset)
        ELSE IF type = FUNC_INVERSE
             THEN IF CabsLess(z, Dbl(1, -10))
                  THEN Returns(HugeSentinel, TRUE)
                  ELSE Returns(CInverse(z), reset)
        ELSE Returns(z, reset)

eval_original_function(z, type, error) ==
    LET reset == FALSE
    IN  IF NonFinite(z) THEN Returns(CZero, TRUE)
        ELSE IF type = FUNC_EXP
             THEN IF FGreater(creal(z), Dbl(700, 0))
                  THEN Returns(HugeSentinel, TRUE)
                  ELSE Returns(Lib("cexp", z), reset)
        ELSE IF type = FUNC_SIN THEN Returns(Lib("csin", z), reset)
        ELSE IF type = FUNC_LOG
             THEN IF CabsLess(z, Dbl(1, -10))
                  THEN Returns(HugeSentinel, TRUE)
                  ELSE Returns(Lib("clog", z), reset)
        ELSE IF type = FUNC_INVERSE
             THEN IF CabsLess(z, Dbl(1, -10))
                  THEN Returns(HugeSentinel, TRUE)
                  ELSE Returns(CInverse(z), reset)
        ELSE Returns(z, reset)

RECURSIVE TaylorExpLoop_SkipsFirst(_, _, _, _, _, _, _)
\* the loop without the term of n = 0
TaylorExpLoop_SkipsFirst(n, terms, z, sum, z_power, factorial, error) ==
    IF n > terms THEN Returns(sum, error)
    ELSE IF n = 0
         THEN TaylorExpLoop_SkipsFirst(1, terms, z, sum, CMul(z_power, z),
                                       factorial, error)
    ELSE IF CabsGreater(CMul(z_power, z), Dbl(1, 100))
         THEN Returns(CAdd(sum, CDivReal(z_power, factorial)), TRUE)
    ELSE TaylorExpLoop_SkipsFirst(n + 1, terms, z,
            CAdd(sum, CDivReal(z_power, factorial)), CMul(z_power, z),
            FMul(factorial, FromInt(n + 1)), error)

RECURSIVE TaylorExpLoop(_, _, _, _, _, _, _)
\* the end of one iteration: "if (cabs(z_power) > 1e100) { *error = true;
\* return sum; }", else the next iteration; s holds the locals of the loop
TaylorExpCheck(n, terms, z, s, error) ==
    IF CabsGreater(s.z_power, Dbl(1, 100)) THEN Returns(s.sum, TRUE)
    ELSE TaylorExpLoop(n + 1, terms, z, s.sum, s.z_power, s.factorial, error)
\* "for (int n = 0; n <= terms; n++)" of case FUNC_EXP
TaylorExpLoop(n, terms, z, sum, z_power, factorial, error) ==
    IF n > terms THEN Returns(sum, error)
    ELSE TaylorExpCheck(n, terms, z,
            [sum |-> CAdd(sum, CDivReal(z_power, factorial)),
             z_power |-> CMul(z_power, z),
             factorial |-> FMul(factorial, FromInt(n + 1))], error)

RECURSIVE TaylorSinLoop(_, _, _, _, _, _, _)
\* s holds the locals at the end of one iteration, power and denom included
TaylorSinCheck(n, terms, z, s, error) ==
    IF CabsGreater(s.term, Dbl(1, 100)) THEN Returns(s.sum, TRUE)
    ELSE TaylorSinLoop(n + 1, terms, z, s.sum, s.power, s.denom, error)
\* "for (int n = 0; n <= terms; n++)" of case FUNC_SIN.  power is
\* cpow(z, 2*n + 1), taken as the repeated product, and denom the product
\* 1 * 1 * 2 * ... * (2*n + 1) of the inner loop; both are carried from one
\* iteration to the next instead of being rebuilt from 1.
TaylorSinLoop(n, terms, z, sum, power, denom, error) ==
    IF n > terms THEN Returns(sum, error)
    ELSE TaylorSinCheck(n, terms, z,
            [term |-> IF n % 2 = 1 THEN CNeg(power) ELSE power,
             sum |-> CAdd(sum, CDivReal(IF n % 2 = 1 THEN CNeg(power) ELSE power,
                                        denom)),
             power |-> CMul(CMul(power, z), z),
             denom |-> FMul(FMul(denom, FromInt(2 * n + 2)), FromInt(2 * n + 3))],
            error)

RECURSIVE TaylorLogLoop(_, _, _, _, _, _)
TaylorLogCheck(n, terms, w, s, error) ==
    IF CabsGreater(s.term, Dbl(1, 100)) THEN Returns(s.sum, TRUE)
    ELSE TaylorLogLoop(n + 1, terms, w, s.sum, s.power, error)
TaylorLogTerm(n, terms, w, sum, power, term, error) ==
    TaylorLogCheck(n, terms, w,
        [term |-> term, sum |-> CAdd(sum, term), power |-> CMul(power, w)], error)
\* "for (int n = 1; n <= terms; n++)" of case FUNC_LOG; power is cpow(w, n)
TaylorLogLoop(n, terms, w, sum, power, error) ==
    IF n > terms THEN Returns(sum, error)
    ELSE TaylorLogTerm(n, terms, w, sum, power,
            CDivReal(CMulReal(FromInt(IF n % 2 = 1 THEN 1 ELSE -1), power),
                     FromInt(n)),
            error)

\* the Taylor evaluator without "if (cabs(z) < 1e-10)" in case FUNC_LOG
eval_taylor_series_NoLogGuard(z, type, terms, error) ==
    LET reset == FALSE
    IN  IF NonFinite(z) THEN Returns(CZero, TRUE)
        ELSE IF type = FUNC_EXP
             THEN TaylorExpLoop(0, terms, z, CZero, COne, FromInt(1), reset)
        ELSE IF type = FUNC_SIN THEN TaylorSinLoop(0, terms, z, CZero, z, FromInt(1), reset)
        ELSE IF type = FUNC_LOG
             THEN TaylorLogLoop(1, terms, CSub(z, COne), CZero, CSub(z, COne), reset)
        ELSE IF type = FUNC_INVERSE
             THEN IF CabsLess(z, Dbl(1, -10))
                  THEN Returns(HugeSentinel, TRUE)
                  ELSE Returns(CInverse(z), reset)
        ELSE Returns(z, reset)

eval_taylor_series(z, type, terms, error) ==
    LET reset == FALSE
    IN  IF NonFinite(z) THEN Returns(CZero, TRUE)
        ELSE IF type = FUNC_EXP
             THEN TaylorExpLoop(0, terms, z, CZero, COne, FromInt(1), reset)
        ELSE IF type = FUNC_SIN THEN TaylorSinLoop(0, terms, z, CZero, z, FromInt(1), reset)
        ELSE IF type = FUNC_LOG
             THEN IF CabsLess(z, Dbl(1, -10))
                  THEN Returns(HugeSentinel, TRUE)
                  ELSE TaylorLogLoop(1, terms, CSub(z, COne), CZero, CSub(z, COne), reset)
        ELSE IF type = FUNC_INVERSE
             THEN IF CabsLess(z, Dbl(1, -10))
                  THEN Returns(HugeSentinel, TRUE)
                  ELSE Returns(CInverse(z), reset)
        ELSE Returns(z, reset)

\* a Laurent evaluator that hands the entire functions on with one term less
eval_laurent_series_DropsLastTerm(z, type, terms, error) ==
    LET reset == FALSE
    IN  IF NonFinite(z) THEN Returns(CZero, TRUE)
        ELSE IF type # FUNC_INVERSE /\ type # FUNC_LOG
             THEN eval_taylor_series(z, type, terms - 1, reset)
        ELSE IF type = FUNC_LOG
             THEN IF CabsLess(z, Dbl(1, -10))
                  THEN Returns(HugeSentinel, TRUE)
                  ELSE Returns(Lib("clog", z), reset)
        ELSE IF CabsLess(z, Dbl(1, -10))
             THEN Returns(HugeSentinel, TRUE)
             ELSE Returns(CInverse(z), reset)

eval_laurent_series(z, type, terms, error) ==
    LET reset == FALSE
    IN  IF NonFinite(z) THEN Returns(CZero, TRUE)
        ELSE IF type # FUNC_INVERSE /\ type # FUNC_LOG
             THEN eval_taylor_series(z, type, terms, reset)
        ELSE IF type = FUNC_LOG
             THEN IF CabsLess(z, Dbl(1, -10))
                  THEN Returns(HugeSentinel, TRUE)
                  ELSE Returns(Lib("clog", z), reset)
        ELSE IF CabsLess(z, Dbl(1, -10))
             THEN Returns(HugeSentinel, TRUE)
             ELSE Returns(CInverse(z), reset)

\* "static double complex eval_original_adapter(z, type, terms, error)"
eval_original_adapter(z, type, terms, error) == eval_original_function(z, type, error)

\* libm's ccos: at the double nearest to pi/2 its magnitude is about 6e-17
HalfPi == Cx(Dbl(1571, -3), DZero)
ccos(z) == IF z = HalfPi THEN Cx(Dbl(6, -17), DZero) ELSE Lib("ccos", z)

evaluate_function(z, type, error) ==
    LET reset == FALSE
    IN  IF NonFinite(z) THEN Returns(CZero, TRUE)
        ELSE IF type = COLORING_FUNC_EXP
             THEN IF FGreater(creal(z), Dbl(700, 0))
                  THEN Returns(HugeSentinel, TRUE)
                  ELSE Returns(Lib("cexp", z), reset)
        ELSE IF type = COLORING_FUNC_SIN THEN Returns(Lib("csin", z), reset)
        ELSE IF type = COLORING_FUNC_TAN
             THEN IF CabsLess(ccos(z), Dbl(1, -10))
                  THEN Returns(HugeSentinel, TRUE)
                  ELSE Returns(Lib("csin/ccos", z), reset)
        ELSE IF type = COLORING_FUNC_INVERSE
             THEN IF CabsLess(z, Dbl(1, -10))
                  THEN Returns(HugeSentinel, TRUE)
                  ELSE Returns(CInverse(z), reset)
        ELSE IF type = COLORING_FUNC_SQUARE THEN Returns(CMul(z, z), reset)
        ELSE IF type = COLORING_FUNC_SQUARE_MINUS_ONE
             THEN Returns(CSub(CMul(z, z), COne), reset)
        ELSE IF type = COLORING_FUNC_POLY5_MINUS_Z
             THEN Returns(CSub(CMul(CMul(CMul(z, z), CMul(z, z)), z), z), reset)
        ELSE Returns(z, reset)

-----------------------------------------------------------------------------
(* The arguments the evaluators are called with.                           *)

\* finite arguments with |z| < 1e-10
TinySamples ==
    {CZero, Cx(Dbl(5, -11), DZero), Cx(DZero, Dbl(-5, -11)),
     Cx(Dbl(6, -11), Dbl(6, -11))}
\* finite arguments with Re(z) > 700
BeyondExpRange == {Cx(Dbl(701, 0), DZero), Cx(Dbl(701, 0), FromInt(1))}
\* the other finite arguments; the first two have |z| >= 1e-10 by a hair
OrdinarySamples ==
    {Cx(Dbl(1, -10), DZero), Cx(Dbl(8, -11), Dbl(8, -11)),
     COne, Cx(FromInt(-1), DZero), Cx(DZero, FromInt(1)), Cx(FromInt(2), DZero),
     Cx(Dbl(700, 0), DZero), HalfPi, Cx(Dbl(1, 60), DZero), Cx(Dbl(1, 200), DZero)}
FiniteSamples == TinySamples \cup BeyondExpRange \cup OrdinarySamples
NonFiniteSamples ==
    {Cx(NaN, DZero), Cx(DZero, NaN), Cx(Inf(1), DZero), Cx(Inf(-1), DZero),
     Cx(DZero, Inf(1)), Cx(DZero, Inf(-1)), Cx(NaN, Inf(1)), Cx(Inf(1), Inf(1))}
ZSamples == FiniteSamples \cup NonFiniteSamples

\* term counts tried: 0..MaxEvalTerms and the largest the UI reaches
MaxEvalTerms == 2
TermCounts == 0..MaxEvalTerms \cup {MAX_TERMS}

\* the call fn(z, type, terms, &error) with error holding `before`
Apply(fn, z, type, terms, before) ==
    IF fn = "eval_original_function" THEN eval_original_function(z, type, before)
    ELSE IF fn = "eval_taylor_series" THEN eval_taylor_series(z, type, terms, before)
    ELSE IF fn = "eval_laurent_series" THEN eval_laurent_series(z, type, terms, before)
    ELSE evaluate_function(z, type, before)

\* no evaluator call has been made
EvalIdle(z, type, terms, before) ==
    [fn |-> "none", z |-> z, type |-> type, terms |-> terms, before |-> before,
     value |-> CZero, error |-> before]

\* no render pass has been made
PassIdle == [fn |-> "none"]

-----------------------------------------------------------------------------
(* The bilinear program: src/bilinear/main.c.                              *)

\* a, b, c, d of w = (az + b) / (cz + d), with exact rational parts
Param(re, im) == [re |-> Rat(re[1], re[2]), im |-> Rat(im[1], im[2])]

\* "double complex a = 1.0 + 0.0*I;" ... "double complex d = 1.0 + 0.0*I;"
ResetParams ==
    [a |-> Param(<<1, 1>>, <<0, 1>>), b |-> Param(<<0, 1>>, <<0, 1>>),
     c |-> Param(<<0, 1>>, <<0, 1>>), d |-> Param(<<1, 1>>, <<0, 1>>)]

\* z -> i(1+z)/(1-z)
PresetUnitDiskToUpperHalfPlane ==
    [a |-> Param(<<0, 1>>, <<1, 1>>), b |-> Param(<<0, 1>>, <<1, 1>>),
     c |-> Param(<<1, 1>>, <<0, 1>>), d |-> Param(<<-1, 1>>, <<0, 1>>)]

\* z -> (z-i)/(z+i)
PresetUpperHalfPlaneToUnitDisk ==
    [a |-> Param(<<1, 1>>, <<0, 1>>), b |-> Param(<<0, 1>>, <<-1, 1>>),
     c |-> Param(<<1, 1>>, <<0, 1>>), d |-> Param(<<0, 1>>, <<1, 1>>)]

ParamNames == {"a", "b", "c", "d"}
FlagNames == {"showGrid", "showUnitCircle", "showUnitDisk", "showCustomCircle",
              "showCustomLine", "showHalfPlane"}

\* the globals a, b, c, d and the show* locals of main() at its first frame
BilinearDefaults ==
    [a |-> ResetParams.a, b |-> ResetParams.b, c |-> ResetParams.c,
     d |-> ResetParams.d,
     showGrid |-> TRUE, showUnitCircle |-> TRUE, showUnitDisk |-> FALSE,
     showCustomCircle |-> FALSE, showCustomLine |-> FALSE,
     showHalfPlane |-> FALSE]

\* the keyboard of one frame: the keys that are down, and those among them
\* that went down in this frame
IsKeyPressed(in, key) == key \in in.pressed
IsKeyDown(in, key) == key \in in.down

\* "if (IsKeyPressed(KEY_G)) showGrid = !showGrid;" and the five after it,
\* in the order of the source
ToggleKeys ==
    <<<<"KEY_G", "showGrid">>, <<"KEY_C", "showUnitCircle">>,
      <<"KEY_D", "showUnitDisk">>, <<"KEY_X", "showCustomCircle">>,
      <<"KEY_L", "showCustomLine">>, <<"KEY_H", "showHalfPlane">>>>

\* "if (IsKeyDown(KEY_Q)) a = creal(a) + step + cimag(a)*I;" and the fifteen
\* after it, in the order of the source: key, parameter, part, sign of step
AdjustKeys ==
    <<<<"KEY_Q", "a", "re", 1>>, <<"KEY_A", "a", "re", -1>>,
      <<"KEY_W", "b", "re", 1>>, <<"KEY_S", "b", "re", -1>>,
      <<"KEY_E", "c", "re", 1>>, <<"KEY_D", "c", "re", -1>>,
      <<"KEY_R", "d", "re", 1>>, <<"KEY_F", "d", "re", -1>>,
      <<"KEY_T", "a", "im", 1>>, <<"KEY_G", "a", "im", -1>>,
      <<"KEY_Y", "b", "im", 1>>, <<"KEY_H", "b", "im", -1>>,
      <<"KEY_U", "c", "im", 1>>, <<"KEY_J", "c", "im", -1>>,
      <<"KEY_I", "d", "im", 1>>, <<"KEY_K", "d", "im", -1>>>>

\* the toggle lines from the i-th on
RECURSIVE BilinearToggles(_, _, _)
BilinearToggles(s, in, i) ==
    IF i > Len(ToggleKeys) THEN s
    ELSE BilinearToggles(
            IF IsKeyPressed(in, ToggleKeys[i][1])
            THEN [s EXCEPT ![ToggleKeys[i][2]] = ~@] ELSE s,
            in, i + 1)

\* "if (IsKeyPressed(KEY_ONE)) PresetUnitDiskToUpperHalfPlane();
\*  if (IsKeyPressed(KEY_TWO)) PresetUpperHalfPlaneToUnitDisk();"
SetParams(s, p) == [s EXCEPT !.a = p.a, !.b = p.b, !.c = p.c, !.d = p.d]

BilinearPresets(s, in) ==
    LET one == IF IsKeyPressed(in, "KEY_ONE")
               THEN SetParams(s, PresetUnitDiskToUpperHalfPlane) ELSE s
    IN  IF IsKeyPressed(in, "KEY_TWO")
        THEN SetParams(one, PresetUpperHalfPlaneToUnitDisk) ELSE one

\* "float step = 0.1f; if (IsKeyDown(KEY_LEFT_SHIFT)) step = 0.01f;"
BilinearStep(in) ==
    IF IsKeyDown(in, "KEY_LEFT_SHIFT") THEN Rat(1, 100) ELSE Rat(1, 10)

\* the adjust lines from the i-th on
RECURSIVE BilinearAdjust(_, _, _)
BilinearAdjust(s, in, i) ==
    IF i > Len(AdjustKeys) THEN s
    ELSE LET k == AdjustKeys[i]
             by == RMul(RInt(k[4]), BilinearStep(in))
         IN  BilinearAdjust(
                IF IsKeyDown(in, k[1])
                THEN [s EXCEPT ![k[2]][k[3]] = RAdd(@, by)] ELSE s,
                in, i + 1)

\* "if (IsKeyPressed(KEY_SPACE)) { a = 1.0 + 0.0*I; ... d = 1.0 + 0.0*I; }"
BilinearReset(s, in) ==
    IF IsKeyPressed(in, "KEY_SPACE") THEN SetParams(s, ResetParams) ELSE s

\* the update half of one pass of the main loop
BilinearHandleInput(s, in) ==
    BilinearReset(
        BilinearAdjust(BilinearPresets(BilinearToggles(s, in, 1), in), in, 1),
        in)

\* the keys the program reads, but for the shift key
BilinearKeys ==
    {ToggleKeys[i][1] : i \in 1..Len(ToggleKeys)}
      \cup {AdjustKeys[i][1] : i \in 1..Len(AdjustKeys)}
      \cup {"KEY_ONE", "KEY_TWO", "KEY_SPACE"}

\* a key that went down in this frame (and so is down), or one held since
\* an earlier frame
KeyPress(k, shift) ==
    [pressed |-> {k},
     down |-> IF shift THEN {k, "KEY_LEFT_SHIFT"} ELSE {k}]
KeyHeld(k, shift) ==
    [pressed |-> {},
     down |-> IF shift THEN {k, "KEY_LEFT_SHIFT"} ELSE {k}]

BilinearInputs ==
    {[pressed |-> {}, down |-> {}]}
      \cup {KeyPress(k, sh) : k \in BilinearKeys, sh \in BOOLEAN}
      \cup {KeyHeld(k, sh) : k \in BilinearKeys, sh \in BOOLEAN}

\* a frame is taken only while at most MaxAdjusted parts of a, b, c, d are
\* away from the reset values or from those of a preset, each by one step,
\* and at most MaxToggled flags are away from their values at startup
ParamSets ==
    {ResetParams, PresetUnitDiskToUpperHalfPlane, PresetUpperHalfPlaneToUnitDisk}
Offsets == {Rat(-1, 10), Rat(-1, 100), RZero, Rat(1, 100), Rat(1, 10)}
BilinearInBound(s) ==
    \E base \in ParamSets :
       /\ \A n \in ParamNames, part \in {"re", "im"} :
             RSub(s[n][part], base[n][part]) \in Offsets
       /\ Cardinality({np \in ParamNames \X {"re", "im"} :
                          s[np[1]][np[2]] # base[np[1]][np[2]]}) <= MaxAdjusted
    /\ Cardinality({f \in FlagNames : s[f] # BilinearDefaults[f]}) <= MaxToggled

-----------------------------------------------------------------------------
(* The programs as state machines.                                         *)

Init ==
    /\ prog \in {"series", "coloring"}
    /\ run = "start"
    /\ exitCode = -1
    /\ params = SeriesDefaults
    /\ coloring = ColoringDefaults
    /\ status_message = StatusDefaults
    /\ pixels = "unset"
    /\ needsUpdate = FALSE
    /\ rendered = FALSE
    /\ inputSeen = FALSE
    /\ unitI = "_Complex_I"
    /\ eval = EvalIdle(CZero, FUNC_EXP, 0, FALSE)
    /\ bilinear = BilinearDefaults
    /\ pass = PassIdle

\* "if (needsUpdate) { memset; render_function / render_error; UpdateTexture }"
SeriesRenders(nu) == nu

\* a dirty frame that runs the pass whatever LoadImageColors returned
ColoringRenders_NoNullCheck(nu, allocOk) == nu

\* "if (needsUpdate) { pixels = LoadImageColors(..); if (pixels != NULL) {
\*  render_domain_coloring(..); UpdateTexture; UnloadImageColors } else .. }"
ColoringRenders(nu, allocOk) == nu /\ allocOk

ColoringPixels(px, nu, allocOk) ==
    IF ~nu THEN px ELSE IF allocOk THEN "freed" ELSE "NULL"

\* a startup that goes on to the loop whatever LoadImageColors returned
SeriesStartup_IgnoresNull(allocOk) ==
    /\ prog = "series" /\ run = "start"
    /\ pixels' = IF allocOk THEN "buffer" ELSE "NULL"
    /\ run' = "loop"
    /\ exitCode' = -1
    /\ UNCHANGED <<prog, params, coloring, status_message, needsUpdate, rendered,
                   inputSeen>>
    /\ UNCHANGED callVars

\* main() up to the loop: the pixel buffer is loaded and, if that worked, the
\* first pass is rendered; a NULL buffer ends the program with code 1
SeriesStartup(allocOk) ==
    /\ prog = "series" /\ run = "start"
    /\ pixels' = IF allocOk THEN "buffer" ELSE "NULL"
    /\ run' = IF allocOk THEN "loop" ELSE "exit"
    /\ exitCode' = IF allocOk THEN -1 ELSE 1
    /\ UNCHANGED <<prog, params, coloring, status_message, needsUpdate, rendered,
                   inputSeen>>
    /\ UNCHANGED callVars

ColoringStartup(allocOk, manyErrors) ==
    /\ prog = "coloring" /\ run = "start"
    /\ pixels' = IF allocOk THEN "freed" ELSE "NULL"
    /\ run' = IF allocOk THEN "loop" ELSE "exit"
    /\ exitCode' = IF allocOk THEN -1 ELSE 1
    /\ status_message' = IF allocOk /\ manyErrors
                         THEN RaiseStatus(STATUS_MATH_ERROR) ELSE status_message
    /\ UNCHANGED <<prog, params, coloring, needsUpdate, rendered, inputSeen>>
    /\ UNCHANGED callVars

\* one iteration of the series main loop
SeriesFrame(in) ==
    /\ prog = "series" /\ run = "loop"
    /\ \E s \in {SeriesHandleInput(params, in)} :
           /\ SeriesInBound(s.p)
           /\ params' = s.p
           /\ needsUpdate' = s.nu
           /\ rendered' = SeriesRenders(s.nu)
    /\ inputSeen' = (EventCount(in) > 0)
    /\ UNCHANGED <<prog, run, exitCode, coloring, status_message, pixels>>
    /\ UNCHANGED callVars

\* what the platform does to a frame that re-renders: <<allocOk, manyErrors>>
\* (LoadImageColors returned a buffer, the pass ended with error_count > 1000)
Healthy == {<<TRUE, FALSE>>}
Faulty == {<<TRUE, FALSE>>, <<TRUE, TRUE>>, <<FALSE, FALSE>>}

\* one iteration of the coloring main loop; a frame that does not re-render
\* calls neither LoadImageColors nor the renderer
ColoringFrame(in, envs) ==
    /\ prog = "coloring" /\ run = "loop"
    /\ \E s \in {ColoringHandleInput(coloring, in)} :
           /\ ColoringInBound(s.p)
           /\ coloring' = s.p
           /\ needsUpdate' = s.nu
           /\ \E env \in (IF s.nu THEN envs ELSE Healthy), dt \in FrameTimes :
                /\ pixels' = ColoringPixels(pixels, s.nu, env[1])
                /\ rendered' = ColoringRenders(s.nu, env[1])
                /\ status_message' =
                     StatusTick(ColoringUpdate(status_message, s.nu, env[1], env[2]), dt)
    /\ inputSeen' = (EventCount(in) > 0)
    /\ UNCHANGED <<prog, run, exitCode, params>>
    /\ UNCHANGED callVars

\* WindowShouldClose() ends the loop; main() returns 0
Close ==
    /\ run = "loop"
    /\ run' = "exit"
    /\ exitCode' = 0
    /\ UNCHANGED <<prog, params, coloring, status_message, pixels, needsUpdate,
                   rendered, inputSeen>>
    /\ UNCHANGED callVars

\* sessions in which every buffer allocation works and no pass counts more
\* than 1000 failed evaluations
Next ==
    \/ SeriesStartup(TRUE)
    \/ ColoringStartup(TRUE, FALSE)
    \/ \E in \in SeriesInputs : SeriesFrame(in)
    \/ \E in \in ColoringInputs : ColoringFrame(in, Healthy)
    \/ Close

Spec == Init /\ [][Next]_vars

\* sessions in which an allocation may fail and a pass may count more than
\* 1000 failed evaluations
NextFaults ==
    \/ \E allocOk \in BOOLEAN : SeriesStartup(allocOk)
    \/ \E env \in Faulty : ColoringStartup(env[1], env[2])
    \/ \E in \in SeriesInputs : SeriesFrame(in)
    \/ \E in \in ColoringInputs : ColoringFrame(in, Faulty)
    \/ Close

SpecFaults == Init /\ [][NextFaults]_vars

\* the coloring program alone, with frames of at most one key
LiveInputs ==
    {in \in ColoringInputs :
        in.mouse = IdleMouse /\ in.wheel = 0 /\ Cardinality(in.keys) <= 1}

ColoringFrames == \E in \in LiveInputs : ColoringFrame(in, Faulty)

NextLive ==
    \/ \E env \in Faulty : ColoringStartup(env[1], env[2])
    \/ ColoringFrames
    \/ Close

\* "while (!WindowShouldClose()) { ... }": as long as the window is open the
\* coloring loop goes on to its next frame
SpecLive == Init /\ [][NextLive]_vars /\ WF_vars(ColoringFrames)

-----------------------------------------------------------------------------
(* Single evaluator calls: the arguments, the bool the error pointer       *)
(* points at and the build's I are drawn at the start; one action per      *)
(* evaluator makes the call.                                               *)

InitEval ==
    /\ prog = "series" /\ run = "start" /\ exitCode = -1
    /\ params = SeriesDefaults /\ coloring = ColoringDefaults
    /\ status_message = StatusDefaults /\ pixels = "unset"
    /\ needsUpdate = FALSE /\ rendered = FALSE /\ inputSeen = FALSE
    /\ unitI \in {"_Complex_I", "_Imaginary_I"}
    /\ \E z \in ZSamples, type \in 0..COLORING_FUNC_COUNT, terms \in TermCounts,
          before \in BOOLEAN : eval = EvalIdle(z, type, terms, before)
    /\ bilinear = BilinearDefaults
    /\ pass = PassIdle

\* the call of fn returned r
Called(fn, r) ==
    /\ eval' = [eval EXCEPT !.fn = fn, !.value = r.value, !.error = r.error]
    /\ UNCHANGED <<loopVars, unitI, pass, bilinear>>

\* the series evaluators take a FunctionType of the series program
CallEvalOriginal ==
    /\ eval.fn = "none" /\ eval.type <= FUNC_COUNT
    /\ Called("eval_original_function",
              eval_original_function(eval.z, eval.type, eval.before))
CallEvalTaylor ==
    /\ eval.fn = "none" /\ eval.type <= FUNC_COUNT
    /\ Called("eval_taylor_series",
              eval_taylor_series(eval.z, eval.type, eval.terms, eval.before))
CallEvalLaurent ==
    /\ eval.fn = "none" /\ eval.type <= FUNC_COUNT
    /\ Called("eval_laurent_series",
              eval_laurent_series(eval.z, eval.type, eval.terms, eval.before))
CallEvaluateFunction ==
    /\ eval.fn = "none"
    /\ Called("evaluate_function", evaluate_function(eval.z, eval.type, eval.before))

NextEval ==
    \/ CallEvalOriginal
    \/ CallEvalTaylor
    \/ CallEvalLaurent
    \/ CallEvaluateFunction

SpecEval == InitEval /\ [][NextEval]_vars

-----------------------------------------------------------------------------
(* Render passes.  A pass is one call of render_function, render_error or  *)
(* render_domain_coloring.  The record of a pass keeps, for every row, the *)
(* first and the last buffer index the row writes, the indices of one row  *)
(* in the order they are written, and what the loop body did at one probe  *)
(* pixel.  The colour of a successful sample comes out of libm calls       *)
(* (carg, fmod, log, ColorFromHSV) and is an input of the pass.            *)

Colour(r, g, b, a) == [r |-> r, g |-> g, b |-> b, a |-> a]
\* "(Color){ 255, 0, 255, 255 }"
Magenta == Colour(255, 0, 255, 255)

\* "re + im * I"
ToComplex(re, im) ==
    IF unitI = "_Complex_I"
    THEN Cx(FAdd(re, FMul(im, DZero)), FMul(im, FromInt(1)))
    ELSE Cx(re, im)

\* the integral part of a finite double, or 256 when it is 10^9 or more
IntegralPart(v) ==
    IF v[3] >= 0
    THEN (IF NumDigits(Abs(v[2])) + v[3] > 9 THEN 256 ELSE v[2] * Pow10(v[3]))
    ELSE IF -v[3] > 9 THEN 0
    ELSE Sgn(v[2]) * (Abs(v[2]) \div Pow10(-v[3]))
InByte(k, ub) == IF k >= 0 /\ k <= 255 THEN k ELSE ub
\* "(unsigned char)v" of a double: the fraction is dropped; a value whose
\* integral part does not fit has no defined result and yields the byte ub
ToByte(v, ub) == IF IsFinite(v) THEN InByte(IntegralPart(v), ub) ELSE ub

\* Clamp of src/series/main.c on doubles; a NaN passes both tests
FClamp(value, min, max) ==
    IF FLess(value, min) THEN min ELSE IF FGreater(value, max) THEN max ELSE value

ErrorRamp(ratio, ub) ==
    IF FLess(ratio, Dbl(25, -2))
    THEN Colour(0, ToByte(FMul(FromInt(255), FMul(ratio, FromInt(4))), ub), 255, 255)
    ELSE IF FLess(ratio, Dbl(5, -1))
    THEN Colour(0, 255,
                ToByte(FMul(FromInt(255),
                            FSub(FromInt(1),
                                 FMul(FSub(ratio, Dbl(25, -2)), FromInt(4)))), ub),
                255)
    ELSE IF FLess(ratio, Dbl(75, -2))
    THEN Colour(ToByte(FMul(FromInt(255),
                            FMul(FSub(ratio, Dbl(5, -1)), FromInt(4))), ub),
                255, 0, 255)
    ELSE Colour(255,
                ToByte(FMul(FromInt(255),
                            FSub(FromInt(1),
                                 FMul(FSub(ratio, Dbl(75, -2)), FromInt(4)))), ub),
                0, 255)

get_error_color(error, max_error, ub) ==
    ErrorRamp(FClamp(FDiv(error, max_error), DZero, FromInt(1)), ub)

\* rows laid out half a screen apart
SeriesIndex_HalfStride(x, y, offset_x) ==
    (y * (SERIES_SCREEN_WIDTH \div 2)) + (x + offset_x)

\* "pixels[(y * SCREEN_WIDTH) + (x + offset_x)]"
SeriesIndex(x, y, offset_x) == (y * SERIES_SCREEN_WIDTH) + (x + offset_x)
\* "pixels[y * SCREEN_WIDTH + x]"
ColoringIndex(x, y) == y * COLORING_SCREEN_WIDTH + x

\* the series loops "for y < height, for x < width": per row the first and
\* the last index written, and the indices of row `row` in writing order
SeriesWrites(width, height, offset_x, row) ==
    [spans |-> [y \in 0..(height - 1) |->
                  <<SeriesIndex(0, y, offset_x), SeriesIndex(width - 1, y, offset_x)>>],
     count |-> width * height,
     row |-> [k \in 1..width |-> SeriesIndex(k - 1, row, offset_x)]]

ColoringWrites(row) ==
    [spans |-> [y \in 0..(COLORING_SCREEN_HEIGHT - 1) |->
                  <<ColoringIndex(0, y), ColoringIndex(COLORING_SCREEN_WIDTH - 1, y)>>],
     count |-> COLORING_SCREEN_WIDTH * COLORING_SCREEN_HEIGHT,
     row |-> [k \in 1..COLORING_SCREEN_WIDTH |-> ColoringIndex(k - 1, row)]]

\* "double re = ((x - width/2) / params.scale) + params.centerX;
\*  double im = ((height/2 - y) / params.scale) + params.centerY;"
SeriesArg(x, y, width, height, p) ==
    ToComplex(FAdd(FDiv(FromInt(x - (width \div 2)), p.scale), p.centerX),
              FAdd(FDiv(FromInt((height \div 2) - y), p.scale), p.centerY))

\* the call through the function pointer eval_func
EvalFunc(eval_func, z, type, terms, error) ==
    IF eval_func = "eval_original_adapter"
    THEN eval_original_adapter(z, type, terms, error)
    ELSE IF eval_func = "eval_taylor_series"
    THEN eval_taylor_series(z, type, terms, error)
    ELSE eval_laurent_series(z, type, terms, error)

\* the loop body of render_function at a pixel whose argument is z
FunctionPixelOf(z, r, shade) ==
    [z |-> z, error |-> r.error, color |-> IF r.error THEN Magenta ELSE shade]
FunctionPixelAt(z, eval_func, p, shade) ==
    FunctionPixelOf(z, EvalFunc(eval_func, z, p.func_type, p.num_terms, FALSE), shade)

\* a renderer that takes the argument from the screen column x + offset_x
render_function_ScreenColumns(eval_func, p, width, height, offset_x, probe) ==
    [fn |-> "render_function", eval_func |-> eval_func, params |-> p,
     width |-> width, height |-> height, offset_x |-> offset_x, probe |-> probe,
     writes |-> SeriesWrites(width, height, offset_x, probe.y),
     pixel |-> FunctionPixelAt(SeriesArg(probe.x + offset_x, probe.y,
                                         SERIES_SCREEN_WIDTH, height, p),
                               eval_func, p, probe.shade)]

\* render_function on a non-NULL buffer; probe is the pixel looked at
render_function(eval_func, p, width, height, offset_x, probe) ==
    [fn |-> "render_function", eval_func |-> eval_func, params |-> p,
     width |-> width, height |-> height, offset_x |-> offset_x, probe |-> probe,
     writes |-> SeriesWrites(width, height, offset_x, probe.y),
     pixel |-> FunctionPixelAt(SeriesArg(probe.x, probe.y, width, height, p),
                               eval_func, p, probe.shade)]

\* a subtraction whose result is never taken to be exactly 0
ErrorMagnitude_NeverExact(original, approximation, libm) == libm

\* "cabs(original - approximation)": 0 for two equal finite values (clog of
\* a finite z with cabs(z) >= 1e-10 is finite), otherwise the magnitude libm
\* returns, an input of the pass
ErrorMagnitude(original, approximation, libm) ==
    IF IsLib(original) /\ original = approximation /\ original.lib = "clog"
    THEN DZero
    ELSE IF IsLib(original) \/ IsLib(approximation) THEN libm
    ELSE IF NonFinite(original) \/ NonFinite(approximation) THEN libm
    ELSE IF original = approximation THEN DZero
    ELSE libm

\* the loop body with "if (eval_error1)" alone
ErrorPixelOf_ExactFlagOnly(z, r1, r2, probe) ==
    [z |-> z, eval_error1 |-> r1.error, eval_error2 |-> r2.error,
     color |-> IF r1.error THEN Magenta
               ELSE get_error_color(ErrorMagnitude(r1.value, r2.value, probe.cabs),
                                    FromInt(5), probe.ub)]

\* the loop body of render_error
ErrorPixelOf(z, r1, r2, probe) ==
    [z |-> z, eval_error1 |-> r1.error, eval_error2 |-> r2.error,
     color |-> IF r1.error \/ r2.error THEN Magenta
               ELSE get_error_color(ErrorMagnitude(r1.value, r2.value, probe.cabs),
                                    FromInt(5), probe.ub)]
ErrorPixelAt(z, p, probe) ==
    ErrorPixelOf(z, eval_original_function(z, p.func_type, FALSE),
                 IF p.series_type = SERIES_TAYLOR
                 THEN eval_taylor_series(z, p.func_type, p.num_terms, FALSE)
                 ELSE eval_laurent_series(z, p.func_type, p.num_terms, FALSE),
                 probe)

render_error(p, width, height, offset_x, probe) ==
    [fn |-> "render_error", params |-> p,
     width |-> width, height |-> height, offset_x |-> offset_x, probe |-> probe,
     writes |-> SeriesWrites(width, height, offset_x, probe.y),
     pixel |-> ErrorPixelAt(SeriesArg(probe.x, probe.y, width, height, p), p, probe)]

\* "double re = ((x + sub_x) - SCREEN_WIDTH/2) / scale + centerX;
\*  double im = ((SCREEN_HEIGHT/2 - y) - sub_y) / scale + centerY;"
\* with sub_x = (double)sx / aa_level and sub_y = (double)sy / aa_level
ColoringArg(x, y, sx, sy, aa_level, c) ==
    ToComplex(
        FAdd(FDiv(FSub(FAdd(FromInt(x), FDiv(FromInt(sx), FromInt(aa_level))),
                       FromInt(COLORING_SCREEN_WIDTH \div 2)), c.scale), c.centerX),
        FAdd(FDiv(FSub(FromInt((COLORING_SCREEN_HEIGHT \div 2) - y),
                       FDiv(FromInt(sy), FromInt(aa_level))), c.scale), c.centerY))

\* a subsample whose failure is counted but whose colour is added all the same
SubsampleOf_NoContinue(acc, r, shade) ==
    [acc EXCEPT !.evaluated = @ + 1,
                !.error_count = IF r.error THEN @ + 1 ELSE @,
                !.valid_samples = @ + 1,
                !.r = @ + shade.r, !.g = @ + shade.g, !.b = @ + shade.b]

\* one subsample: "if (eval_error) { error_count++; continue; }", else the
\* colour is added and valid_samples counted
SubsampleOf(acc, r, shade) ==
    IF r.error
    THEN [acc EXCEPT !.evaluated = @ + 1, !.error_count = @ + 1]
    ELSE [acc EXCEPT !.evaluated = @ + 1, !.valid_samples = @ + 1,
                     !.r = @ + shade.r, !.g = @ + shade.g, !.b = @ + shade.b]

RECURSIVE SubsampleLoop(_, _, _, _, _, _)
\* "for sy < aa_level, for sx < aa_level", k = sy * aa_level + sx
SubsampleLoop(k, x, y, aa_level, c, acc) ==
    IF k >= aa_level * aa_level THEN acc
    ELSE SubsampleLoop(k + 1, x, y, aa_level, c,
            SubsampleOf(acc,
                evaluate_function(
                    ColoringArg(x, y, k % aa_level, k \div aa_level, aa_level, c),
                    c.func_type, FALSE),
                c.shades[(k % Len(c.shades)) + 1]))

\* "if (valid_samples > 0) { final_color = r / valid_samples, .. } else magenta"
FinalColor(acc) ==
    IF acc.valid_samples > 0
    THEN Colour(acc.r \div acc.valid_samples, acc.g \div acc.valid_samples,
                acc.b \div acc.valid_samples, 255)
    ELSE Magenta
PixelOf(acc) ==
    [evaluated |-> acc.evaluated, errors |-> acc.error_count,
     valid_samples |-> acc.valid_samples, color |-> FinalColor(acc)]

\* the body of the x loop at pixel (x, y)
ColoringPixel(x, y, aa_level, c) ==
    PixelOf(SubsampleLoop(0, x, y, aa_level, c,
                [evaluated |-> 0, error_count |-> 0, valid_samples |-> 0,
                 r |-> 0, g |-> 0, b |-> 0]))

RECURSIVE WeightedCount(_, _)
\* the sum of errs[x] over the columns x
WeightedCount(errs, k) ==
    IF k = 0 THEN 0
    ELSE k * Cardinality({x \in DOMAIN errs : errs[x] = k}) + WeightedCount(errs, k - 1)

\* error_count at the end of the pass.  The failed subsamples of each column
\* are counted in row c.row and taken for every row: the functions of
\* PassFunctions fail by the real part of a finite argument alone.
ErrorCount(errs, aa_level) ==
    COLORING_SCREEN_HEIGHT * WeightedCount(errs, aa_level * aa_level)

\* "if (error_count > 1000 && status) { status->status = STATUS_MATH_ERROR; .. }"
PassStatus(status, error_count) ==
    IF error_count > 1000 THEN RaiseStatus(STATUS_MATH_ERROR) ELSE status

PassWith(c, aa_level, errs, error_count, status, probe) ==
    [fn |-> "render_domain_coloring", buffer |-> "buffer", args |-> c,
     returned |-> TRUE, aa_level |-> aa_level, probe |-> probe,
     writes |-> ColoringWrites(probe.y),
     columns |-> errs,
     error_count |-> error_count,
     status |-> PassStatus(status, error_count),
     pixel |-> ColoringPixel(probe.x, probe.y, aa_level, c)]

PassOf(c, aa_level, errs, status, probe) ==
    PassWith(c, aa_level, errs, ErrorCount(errs, aa_level), status, probe)

\* c holds func_type, centerX, centerY, scale and the fields of params
render_domain_coloring(buffer, c, status, probe) ==
    IF buffer = "NULL"
    THEN [fn |-> "render_domain_coloring", buffer |-> buffer, args |-> c,
          returned |-> FALSE,
          writes |-> [spans |-> << >>, count |-> 0, row |-> << >>],
          status |-> RaiseStatus(STATUS_RENDER_ERROR)]
    ELSE PassOf(c, IF c.anti_aliasing > 0 THEN c.anti_aliasing ELSE 1,
                [x \in 0..(COLORING_SCREEN_WIDTH - 1) |->
                   ColoringPixel(x, c.row,
                                 IF c.anti_aliasing > 0 THEN c.anti_aliasing ELSE 1,
                                 c).errors],
                status, probe)

-----------------------------------------------------------------------------
(* Single render passes: the arguments of the call are drawn at the start, *)
(* one action per call main() makes.                                       *)

\* The line stage of the renderers.  Whether a sample lies on a phase line
\* ("phase_mod < thickness || phase_mod > M_PI/4 - thickness") or a modulus
\* line ("mod < thickness || mod > 1.0 - thickness") comes from fmod and log
\* and is an input: q.phase_line, q.modulus_line.

\* series add_phase_lines and add_modulus_lines on a line:
\* "color.r = (color.r + 255) / 2;" and the same for g and b
SeriesLineBlend(color) ==
    [color EXCEPT !.r = (@ + 255) \div 2, !.g = (@ + 255) \div 2,
                  !.b = (@ + 255) \div 2]

\* "(unsigned char)(a + (b - a) * t)", t = num/100
lerp_byte(a, b, num) == (100 * a + (b - a) * num) \div 100

\* "(0.2126f * c.r + 0.7152f * c.g + 0.0722f * c.b) / 255.0f", times 10000 * 255
luminance(c) == 2126 * c.r + 7152 * c.g + 722 * c.b

\* "unsigned char target = (lum > 0.5f) ? 0 : 255;" and the three lerp_byte
blend_contrast_line(base, num) ==
    [base EXCEPT
        !.r = lerp_byte(@, IF luminance(base) > 5000 * 255 THEN 0 ELSE 255, num),
        !.g = lerp_byte(@, IF luminance(base) > 5000 * 255 THEN 0 ELSE 255, num),
        !.b = lerp_byte(@, IF luminance(base) > 5000 * 255 THEN 0 ELSE 255, num)]

\* one line function of either program applied to color
AddLine(prog_, color, on_line) ==
    IF ~on_line THEN color
    ELSE IF prog_ = "series" THEN SeriesLineBlend(color)
    ELSE blend_contrast_line(color, 35)

\* "if (params.show_phase_lines) color = add_phase_lines(..);
\*  if (params.show_modulus_lines) color = add_modulus_lines(..);":
\* the colour before, between and after the two
AddLines(q) ==
    [fn |-> "add_lines", prog |-> q.prog, call |-> q,
     base |-> q.color,
     phased |-> IF q.show_phase_lines
                THEN AddLine(q.prog, q.color, q.phase_line) ELSE q.color,
     color |-> IF q.show_modulus_lines
               THEN AddLine(q.prog,
                            IF q.show_phase_lines
                            THEN AddLine(q.prog, q.color, q.phase_line) ELSE q.color,
                            q.modulus_line)
               ELSE IF q.show_phase_lines
               THEN AddLine(q.prog, q.color, q.phase_line) ELSE q.color]

\* channels after apply_brightness: the series brightness stays below one
\* half, the coloring brightness (a power of it in enhanced mode) below one
Channels(prog_) ==
    IF prog_ = "series" THEN {6, 60, 127} ELSE {0, 60, 127, 128, 255}

LineCalls ==
    {[fn |-> "none", prog |-> pr, color |-> Colour(c[1], c[2], c[3], 255),
      phase_line |-> on[1], modulus_line |-> on[2],
      show_phase_lines |-> sh[1], show_modulus_lines |-> sh[2]] :
        pr \in {"series", "coloring"},
        c \in (Channels("series") \cup Channels("coloring"))
                 \X (Channels("series") \cup Channels("coloring"))
                 \X (Channels("series") \cup Channels("coloring")),
        on \in BOOLEAN \X BOOLEAN, sh \in BOOLEAN \X BOOLEAN}

InitLines ==
    /\ prog = "series" /\ run = "start" /\ exitCode = -1
    /\ params = SeriesDefaults /\ coloring = ColoringDefaults
    /\ status_message = StatusDefaults /\ pixels = "unset"
    /\ needsUpdate = FALSE /\ rendered = FALSE /\ inputSeen = FALSE
    /\ unitI = "_Complex_I"
    /\ eval = EvalIdle(CZero, FUNC_EXP, 1, FALSE)
    /\ bilinear = BilinearDefaults
    /\ pass \in {q \in LineCalls :
                  q.color.r \in Channels(q.prog) /\ q.color.g \in Channels(q.prog)
                  /\ q.color.b \in Channels(q.prog)}

\* the line stage of render_function
SeriesLines ==
    /\ pass.fn = "none" /\ pass.prog = "series"
    /\ pass' = AddLines(pass)
    /\ UNCHANGED <<loopVars, unitI, eval, bilinear>>

\* the line stage of a subsample of render_domain_coloring
ColoringLines ==
    /\ pass.fn = "none" /\ pass.prog = "coloring"
    /\ pass' = AddLines(pass)
    /\ UNCHANGED <<loopVars, unitI, eval, bilinear>>

NextLines == SeriesLines \/ ColoringLines

SpecLines == InitLines /\ [][NextLines]_vars


-----------------------------------------------------------------------------
(* The bilinear program as a state machine.                                *)

InitBilinear ==
    /\ prog = "bilinear" /\ run = "start" /\ exitCode = -1
    /\ params = SeriesDefaults /\ coloring = ColoringDefaults
    /\ status_message = StatusDefaults /\ pixels = "unset"
    /\ needsUpdate = FALSE /\ rendered = FALSE /\ inputSeen = FALSE
    /\ unitI = "_Complex_I"
    /\ eval = EvalIdle(CZero, FUNC_EXP, 0, FALSE)
    /\ pass = PassIdle
    /\ bilinear = BilinearDefaults

\* "InitWindow(...); SetTargetFPS(60);" and the locals of main()
BilinearStartup ==
    /\ prog = "bilinear" /\ run = "start"
    /\ run' = "loop"
    /\ bilinear' = BilinearDefaults
    /\ UNCHANGED <<prog, exitCode, params, coloring, status_message, pixels,
                   needsUpdate, rendered, inputSeen, unitI, eval, pass>>

\* one pass of "while (!WindowShouldClose())"
BilinearFrame(in) ==
    /\ prog = "bilinear" /\ run = "loop"
    /\ bilinear' = BilinearHandleInput(bilinear, in)
    /\ BilinearInBound(bilinear')
    /\ UNCHANGED <<loopVars, unitI, eval, pass>>

NextBilinear ==
    \/ BilinearStartup
    \/ \E in \in BilinearInputs : BilinearFrame(in)
    \/ Close

SpecBilinear == InitBilinear /\ [][NextBilinear]_vars

\* views of the series program: the default one, one panned by a unit and
\* one panned far to the left, where the powers of z pass 1e100 within 20
\* terms
SeriesViews ==
    {[centerX |-> DZero, centerY |-> DZero, scale |-> FromInt(100)],
     [centerX |-> FromInt(1), centerY |-> DZero, scale |-> FromInt(100)],
     [centerX |-> Dbl(-1, 5), centerY |-> DZero, scale |-> FromInt(100)]}

\* what the probe of a series pass takes from libm: the colour of a
\* successful sample (below 224 in every channel: brightness below one half,
\* then at most two blends toward 255), the magnitude
\* cabs(original - approximation), the byte of an out-of-range conversion
ProbeOutcomes ==
    {[shade |-> Colour(120, 0, 120, 255), cabs |-> Dbl(1, -1), ub |-> 0],
     [shade |-> Colour(0, 60, 30, 255), cabs |-> FromInt(2), ub |-> 255],
     [shade |-> Colour(120, 0, 120, 255), cabs |-> FromInt(7), ub |-> 0],
     [shade |-> Colour(0, 60, 30, 255), cabs |-> NaN, ub |-> 255]}
ProbePlaces == {"centre", "first", "last"}

\* term counts of a pass
PassTerms == {1, MAX_TERMS}

SeriesCalls ==
    {[fn |-> "none", prog |-> "series",
      params |-> [centerX |-> v.centerX, centerY |-> v.centerY, scale |-> v.scale,
                  num_terms |-> n, func_type |-> f, series_type |-> s],
      place |-> at, outcome |-> o] :
        v \in SeriesViews, n \in PassTerms, f \in 0..(FUNC_COUNT - 1),
        s \in {SERIES_TAYLOR, SERIES_LAURENT}, at \in ProbePlaces,
        o \in ProbeOutcomes}

\* the probe pixel of a pass of the given width
ProbeAt(call, width, height) ==
    [x |-> IF call.place = "centre" THEN width \div 2
           ELSE IF call.place = "first" THEN 0 ELSE width - 1,
     y |-> IF call.place = "centre" THEN height \div 2
           ELSE IF call.place = "first" THEN 0 ELSE height - 1,
     shade |-> call.outcome.shade, cabs |-> call.outcome.cabs,
     ub |-> call.outcome.ub]

\* functions of the coloring program that fail, at a finite argument, by
\* its real part alone (or not at all)
PassFunctions == {COLORING_FUNC_EXP, COLORING_FUNC_SQUARE}

\* views of the coloring program: the default one, and three zoomed out by 20
\* wheel steps (scale 100 * 0.8^20) and panned so that Re(z) = 700 falls
\* between the last two columns, inside the last column, left of the screen
ColoringViews ==
    {[centerX |-> DZero, centerY |-> DZero, scale |-> FromInt(100)],
     [centerX |-> FromInt(354), centerY |-> DZero, scale |-> Dbl(1153, -3)],
     [centerX |-> Dbl(3539, -1), centerY |-> DZero, scale |-> Dbl(1153, -3)],
     [centerX |-> FromInt(2000), centerY |-> DZero, scale |-> Dbl(1153, -3)]}

\* the colours of the successful subsamples of a pixel, taken in turn
ShadeRun ==
    <<Colour(200, 10, 220, 255), Colour(0, 60, 30, 255), Colour(90, 90, 90, 255)>>

LastColumn ==
    [x |-> COLORING_SCREEN_WIDTH - 1, y |-> COLORING_SCREEN_HEIGHT \div 2]
CentrePixel ==
    [x |-> COLORING_SCREEN_WIDTH \div 2, y |-> COLORING_SCREEN_HEIGHT \div 2]

ColoringArgs(v, f, aa) ==
    [func_type |-> f, centerX |-> v.centerX, centerY |-> v.centerY,
     scale |-> v.scale, anti_aliasing |-> aa, shades |-> ShadeRun,
     row |-> COLORING_SCREEN_HEIGHT \div 2]

\* the exponential in every view and the square in the default view, on a
\* loaded buffer and on a NULL one
ColoringCalls ==
    {[fn |-> "none", prog |-> "coloring", pixels |-> px,
      args |-> ColoringArgs(v, COLORING_FUNC_EXP, aa), status |-> StatusDefaults,
      probe |-> IF v.scale = FromInt(100) THEN CentrePixel ELSE LastColumn] :
        px \in {"buffer", "NULL"}, v \in ColoringViews, aa \in {1, 2, 4}}
    \cup
    {[fn |-> "none", prog |-> "coloring", pixels |-> "buffer",
      args |-> ColoringArgs(v, COLORING_FUNC_SQUARE, 2), status |-> StatusDefaults,
      probe |-> CentrePixel] : v \in {w \in ColoringViews : w.scale = FromInt(100)}}

InitRender ==
    /\ prog = "series" /\ run = "start" /\ exitCode = -1
    /\ params = SeriesDefaults /\ coloring = ColoringDefaults
    /\ status_message = StatusDefaults /\ pixels = "unset"
    /\ needsUpdate = FALSE /\ rendered = FALSE /\ inputSeen = FALSE
    /\ unitI = "_Complex_I"
    /\ eval = EvalIdle(CZero, FUNC_EXP, 0, FALSE)
    /\ bilinear = BilinearDefaults
    /\ pass \in SeriesCalls \cup ColoringCalls

\* the evaluator main() passes for the approximation
SeriesEvalFunc(p) ==
    IF p.series_type = SERIES_TAYLOR THEN "eval_taylor_series"
    ELSE "eval_laurent_series"

\* VIEW_ORIGINAL: the exact function over the whole screen
RenderOriginal ==
    /\ pass.fn = "none" /\ pass.prog = "series"
    /\ pass' = render_function("eval_original_adapter", pass.params,
                   SERIES_SCREEN_WIDTH, SERIES_SCREEN_HEIGHT, 0,
                   ProbeAt(pass, SERIES_SCREEN_WIDTH, SERIES_SCREEN_HEIGHT))
    /\ UNCHANGED <<loopVars, unitI, eval, bilinear>>

\* VIEW_APPROXIMATION: the series over the whole screen
RenderApproximation ==
    /\ pass.fn = "none" /\ pass.prog = "series"
    /\ pass' = render_function(SeriesEvalFunc(pass.params), pass.params,
                   SERIES_SCREEN_WIDTH, SERIES_SCREEN_HEIGHT, 0,
                   ProbeAt(pass, SERIES_SCREEN_WIDTH, SERIES_SCREEN_HEIGHT))
    /\ UNCHANGED <<loopVars, unitI, eval, bilinear>>

\* "if (params.view_mode == VIEW_SPLIT) { render_function(pixels,
\* eval_original_adapter, params, SCREEN_WIDTH/2, SCREEN_HEIGHT, 0); ...
\* render_function(pixels, eval_taylor_series or eval_laurent_series, params,
\* SCREEN_WIDTH/2, SCREEN_HEIGHT, SCREEN_WIDTH/2); }": the two calls in order
SplitPasses(p, probe) ==
    <<render_function("eval_original_adapter", p,
                      SERIES_SCREEN_WIDTH \div 2, SERIES_SCREEN_HEIGHT, 0, probe),
      render_function(SeriesEvalFunc(p), p,
                      SERIES_SCREEN_WIDTH \div 2, SERIES_SCREEN_HEIGHT,
                      SERIES_SCREEN_WIDTH \div 2, probe)>>

\* VIEW_SPLIT, first call: the exact function on the left half
RenderSplitLeft ==
    /\ pass.fn = "none" /\ pass.prog = "series"
    /\ pass' = SplitPasses(pass.params,
                   ProbeAt(pass, SERIES_SCREEN_WIDTH \div 2, SERIES_SCREEN_HEIGHT))[1]
    /\ UNCHANGED <<loopVars, unitI, eval, bilinear>>

\* VIEW_SPLIT, second call: the series on the right half
RenderSplitRight ==
    /\ pass.fn = "none" /\ pass.prog = "series"
    /\ pass' = SplitPasses(pass.params,
                   ProbeAt(pass, SERIES_SCREEN_WIDTH \div 2, SERIES_SCREEN_HEIGHT))[2]
    /\ UNCHANGED <<loopVars, unitI, eval, bilinear>>

\* VIEW_ERROR
RenderError ==
    /\ pass.fn = "none" /\ pass.prog = "series"
    /\ pass' = render_error(pass.params, SERIES_SCREEN_WIDTH, SERIES_SCREEN_HEIGHT, 0,
                   ProbeAt(pass, SERIES_SCREEN_WIDTH, SERIES_SCREEN_HEIGHT))
    /\ UNCHANGED <<loopVars, unitI, eval, bilinear>>

RenderDomainColoring ==
    /\ pass.fn = "none" /\ pass.prog = "coloring"
    /\ pass' = render_domain_coloring(pass.pixels, pass.args, pass.status, pass.probe)
    /\ UNCHANGED <<loopVars, unitI, eval, bilinear>>

NextRender ==
    \/ RenderOriginal
    \/ RenderApproximation
    \/ RenderSplitLeft
    \/ RenderSplitRight
    \/ RenderError
    \/ RenderDomainColoring

SpecRender == InitRender /\ [][NextRender]_vars

-----------------------------------------------------------------------------
(* Inputs named by the properties below.                                   *)

KeyOnly(k) == Input(IdleMouse, 0, {k})
ClickOnly(rec) ==
    {in \in SeriesInputs \cup ColoringInputs :
        EventCount(in) = 1 /\ Released(in, rec)}
\* the frames whose only event is a click on the Function button
FunctionClicks == ClickOnly(functionButton)
ColoringFunctionClicks == ClickOnly(cFunctionButton)
WheelIn == Input(IdleMouse, 1, {})
WheelOut == Input(IdleMouse, -1, {})

\* every frame input of the series program that holds a reset event
SeriesResetInputs ==
    {in \in SeriesInputs : "R" \in in.keys \/ Released(in, resetButton)}
\* every frame input of the coloring program that holds a reset event
ColoringResetInputs == {in \in ColoringInputs : Released(in, cResetButton)}

SeriesAfter(in) == SeriesHandleInput(params, in).p
ColoringAfter(in) == ColoringHandleInput(coloring, in).p

ViewIsDefault(p) ==
    p.centerX = RZero /\ p.centerY = RZero /\ p.scale = RInt(100)

-----------------------------------------------------------------------------
(* C1 as stated: in every frame the renderer is invoked if and only if the *)
(* dirty flag was set in that frame, and a frame without any input event   *)
(* renders nothing.                                                        *)
C1_RenderIffDirty ==
    /\ rendered <=> needsUpdate
    /\ ~inputSeen => ~rendered

(* C1 as amended: the renderer is invoked in a frame if and only if the    *)
(* dirty flag was set in that frame and the frame's pixel buffer is not    *)
(* NULL (the coloring program loads the buffer anew in every dirty frame   *)
(* and skips the pass when that fails); the flag is set only in a frame    *)
(* that holds an input event; and every frame that changes a               *)
(* view/parameter field sets the flag.                                     *)
C1_RenderIffDirtyAndAllocated ==
    /\ [](rendered <=> (needsUpdate /\ pixels # "NULL"))
    /\ [](~inputSeen => ~needsUpdate)
    /\ [][(params' # params \/ coloring' # coloring) => needsUpdate']_vars

C1_DirtyFrameWithoutBuffer ==
    /\ prog = "coloring" /\ run = "loop"
    /\ inputSeen /\ needsUpdate /\ ~rendered
    /\ pixels = "NULL"
    /\ status_message.status = STATUS_MEMORY_ERROR

(* C2: in the series program a frame runs a render pass only if some field *)
(* of params differs between the start and the end of its input handling.  *)
C2_RenderOnlyIfChanged ==
    [][(prog = "series" /\ rendered') => params' # params]_vars

(* C3: 1 <= num_terms <= MAX_TERMS in every reachable state of the series  *)
(* program.                                                                *)
C3_NumTermsInRange == params.num_terms \in 1..MAX_TERMS

C3_AtMaxTerms ==
    prog = "series" /\ rendered /\ params.num_terms = MAX_TERMS

\* the term-count events of a frame input: Up, Down, click on the Terms button
TermEvents(in) ==
    (IF "UP" \in in.keys THEN {"up"} ELSE {})
    \cup (IF "DOWN" \in in.keys THEN {"down"} ELSE {})
    \cup (IF Released(in, termButton) THEN {"button"} ELSE {})

\* the frame inputs whose only term-count event is Up, Down, a click
UpInputs == {in \in SeriesInputs : TermEvents(in) = {"up"}}
DownInputs == {in \in SeriesInputs : TermEvents(in) = {"down"}}
TermClickInputs == {in \in SeriesInputs : TermEvents(in) = {"button"}}

Saturating(n, step) ==
    IF n + step > MAX_TERMS THEN MAX_TERMS ELSE IF n + step < 1 THEN 1 ELSE n + step

(* C4 as stated: a frame whose only term-count event is Up, Down or a      *)
(* click on the Terms button changes num_terms by one inside the range and *)
(* leaves it at the bound it would cross.                                  *)
C4_EveryTermInputSaturates ==
    prog = "series" =>
        /\ \A in \in UpInputs \cup TermClickInputs :
                SeriesAfter(in).num_terms = Saturating(params.num_terms, 1)
        /\ \A in \in DownInputs :
                SeriesAfter(in).num_terms = Saturating(params.num_terms, -1)

(* C4 as amended: a frame whose only term-count event is the Up or Down    *)
(* key changes num_terms by one inside the range and leaves it at the      *)
(* bound it would cross; a frame whose only term-count event is a click on *)
(* the Terms button adds one below MAX_TERMS and wraps from MAX_TERMS to 1.*)
C4_KeysSaturateButtonCycles ==
    prog = "series" =>
        /\ \A in \in UpInputs :
                SeriesAfter(in).num_terms = Saturating(params.num_terms, 1)
        /\ \A in \in DownInputs :
                SeriesAfter(in).num_terms = Saturating(params.num_terms, -1)
        /\ \A in \in TermClickInputs :
                SeriesAfter(in).num_terms =
                    IF params.num_terms = MAX_TERMS THEN 1 ELSE params.num_terms + 1

C4_ButtonAtMaxTerms ==
    /\ prog = "series" /\ run = "loop" /\ rendered
    /\ params.num_terms = MAX_TERMS
    /\ \E in \in ClickOnly(termButton) : SeriesAfter(in).num_terms = 1
    /\ SeriesAfter(KeyOnly("UP")).num_terms = MAX_TERMS

(* C5: in both programs a frame whose input holds a reset event (the R key *)
(* or the Reset button in series, the Reset button in coloring) ends with  *)
(* centerX = 0, centerY = 0 and scale = 100, from every reachable state    *)
(* and whatever else the frame's input holds.                              *)
C5_ResetRestoresView ==
    /\ prog = "series" =>
            \A in \in SeriesResetInputs : ViewIsDefault(SeriesAfter(in))
    /\ prog = "coloring" =>
            \A in \in ColoringResetInputs : ViewIsDefault(ColoringAfter(in))

C5_ResetFromZoomedView ==
    /\ prog = "series" /\ run = "loop" /\ rendered
    /\ RLess(params.scale, RInt(100))
    /\ ViewIsDefault(SeriesAfter(KeyOnly("R")))

(* C6: in both programs a frame whose only input event is the reset input  *)
(* ends with every toggle at its program-start value.                      *)
C6_ResetRestoresToggles ==
    /\ \A in \in SeriesResetInputs : EventCount(in) = 1 =>
            /\ SeriesAfter(in).show_phase_lines = SeriesDefaults.show_phase_lines
            /\ SeriesAfter(in).show_modulus_lines = SeriesDefaults.show_modulus_lines
    /\ \A in \in ColoringResetInputs : EventCount(in) = 1 =>
            /\ ColoringAfter(in).show_phase_lines = ColoringDefaults.show_phase_lines
            /\ ColoringAfter(in).show_modulus_lines = ColoringDefaults.show_modulus_lines
            /\ ColoringAfter(in).enhanced_contrast = ColoringDefaults.enhanced_contrast
            /\ ColoringAfter(in).anti_aliasing = ColoringDefaults.anti_aliasing

(* C7: in both programs a frame whose only input event is the reset input  *)
(* ends with every state field at its program-start value.                 *)
C7_ResetRestoresEveryField ==
    /\ \A in \in SeriesResetInputs : EventCount(in) = 1 =>
            SeriesAfter(in) = SeriesDefaults
    /\ \A in \in ColoringResetInputs : EventCount(in) = 1 =>
            ColoringAfter(in) = ColoringDefaults

\* a and b differ by at most one millionth of b
WithinTolerance(a, b) == RLeq(RAbs(RSub(a, b)), RMul(b, Rat(1, 1000000)))

(* C8: from every reachable state, a zoom-in frame followed by a zoom-out  *)
(* frame, and a zoom-out frame followed by a zoom-in frame, leave scale    *)
(* equal to its prior value up to rounding tolerance.                      *)
C8_ZoomInvertible ==
    run = "loop" => \A seq \in {<<WheelIn, WheelOut>>, <<WheelOut, WheelIn>>} :
        /\ WithinTolerance(
              SeriesHandleInput(SeriesAfter(seq[1]), seq[2]).p.scale, params.scale)
        /\ WithinTolerance(
              ColoringHandleInput(ColoringAfter(seq[1]), seq[2]).p.scale, coloring.scale)

(* C9: scale > 0 in every reachable state of the series and coloring       *)
(* programs.                                                               *)
C9_ScalePositive ==
    /\ RLess(RZero, params.scale)
    /\ RLess(RZero, coloring.scale)

C9_ZoomedOutTwice ==
    prog = "coloring" /\ rendered /\ coloring.scale = RInt(64)

(* C10: the function selection stays inside the catalog; a frame whose     *)
(* only event is Right or a click on the Function button selects the next  *)
(* entry and the first after the last, a frame whose only event is Left    *)
(* selects the previous entry and the last before the first, and a Right   *)
(* frame followed by a Left frame restores the selection.                  *)
C10_FunctionSelectionWraps ==
    LET f == params.func_type
        g == coloring.current_function
        nextS == IF f = FUNC_COUNT - 1 THEN 0 ELSE f + 1
        prevS == IF f = 0 THEN FUNC_COUNT - 1 ELSE f - 1
        nextC == IF g = COLORING_FUNC_COUNT - 1 THEN 0 ELSE g + 1
        prevC == IF g = 0 THEN COLORING_FUNC_COUNT - 1 ELSE g - 1
    IN  /\ f \in 0..(FUNC_COUNT - 1)
        /\ g \in 0..(COLORING_FUNC_COUNT - 1)
        /\ prog = "series" =>
            /\ SeriesAfter(KeyOnly("RIGHT")).func_type = nextS
            /\ SeriesAfter(KeyOnly("LEFT")).func_type = prevS
            /\ \A in \in FunctionClicks : SeriesAfter(in).func_type = nextS
            /\ SeriesHandleInput(SeriesAfter(KeyOnly("RIGHT")),
                                 KeyOnly("LEFT")).p.func_type = f
        /\ prog = "coloring" =>
            /\ ColoringAfter(KeyOnly("RIGHT")).current_function = nextC
            /\ ColoringAfter(KeyOnly("LEFT")).current_function = prevC
            /\ \A in \in ColoringFunctionClicks :
                    ColoringAfter(in).current_function = nextC
            /\ ColoringHandleInput(ColoringAfter(KeyOnly("RIGHT")),
                                   KeyOnly("LEFT")).p.current_function = g

C10_WrappedToLastEntry ==
    /\ prog = "coloring" /\ run = "loop" /\ rendered
    /\ coloring.current_function = COLORING_FUNC_COUNT - 1
    /\ ColoringAfter(KeyOnly("RIGHT")).current_function = 0

-----------------------------------------------------------------------------
(* The evaluators (SpecEval).                                              *)

SeriesEvaluators ==
    {"eval_original_function", "eval_taylor_series", "eval_laurent_series"}

\* C11: whatever the function tag, an evaluator called with NaN or an
\* infinity in either component of z sets the failure flag and returns 0;
\* and the flag after any call does not depend on the flag before it (the
\* same call made with the opposite stale flag reports the same).
C11_NonFiniteFails ==
    eval.fn # "none" =>
        /\ NonFinite(eval.z) => (eval.error /\ eval.value = CZero)
        /\ Apply(eval.fn, eval.z, eval.type, eval.terms, ~eval.before).error
               = eval.error

\* a call with a NaN component and one with a stale flag that came back clear
C11_NaNRejected ==
    /\ eval.fn = "eval_laurent_series" /\ eval.type = FUNC_LOG
    /\ isnan(cimag(eval.z)) /\ ~eval.before
    /\ eval.error /\ eval.value = CZero

\* C12: for the logarithm and the reciprocal, each series-program evaluator
\* fails at every finite z with |z| < 1e-10, and the exact evaluator does not
\* fail at any finite z with |z| >= 1e-10.
C12_PoleGuard ==
    (eval.fn \in SeriesEvaluators /\ eval.type \in {FUNC_LOG, FUNC_INVERSE}) =>
        /\ eval.z \in TinySamples => eval.error
        /\ (eval.fn = "eval_original_function"
                /\ eval.z \in FiniteSamples \ TinySamples) => ~eval.error

\* the Taylor logarithm refused a non-zero z with |z| < 1e-10
C12_TinyLogRefused ==
    /\ eval.fn = "eval_taylor_series" /\ eval.type = FUNC_LOG
    /\ eval.z \in TinySamples \ {CZero}
    /\ eval.error

ExpEvaluator ==
    \/ eval.fn \in SeriesEvaluators /\ eval.type = FUNC_EXP
    \/ eval.fn = "evaluate_function" /\ eval.type = COLORING_FUNC_EXP

\* C13: the exponential at a finite z with Re(z) > 700 sets the failure flag
\* and returns a value whose two components are both finite.
C13_FiniteSentinel ==
    (ExpEvaluator /\ eval.fn \in {"eval_original_function", "evaluate_function"}
        /\ eval.z \in BeyondExpRange) =>
        /\ eval.error
        /\ IsFinite(creal(eval.value)) /\ IsFinite(cimag(eval.value))

\* C14: the Taylor exponential at z = 0 returns exactly 1 + 0i and does not
\* fail, whatever the term count.
C14_ExpAtZero ==
    (eval.fn = "eval_taylor_series" /\ eval.type = FUNC_EXP /\ eval.z = CZero) =>
        (eval.value = COne /\ ~eval.error)

\* the call at z = 0 with the largest term count of the UI
C14_ExpAtZeroMaxTerms ==
    /\ eval.fn = "eval_taylor_series" /\ eval.type = FUNC_EXP /\ eval.z = CZero
    /\ eval.terms = MAX_TERMS /\ eval.before
    /\ eval.value = COne /\ ~eval.error

-----------------------------------------------------------------------------
(* Render passes (SpecRender).                                             *)

ColoringPassDone == pass.fn = "render_domain_coloring" /\ pass.returned
SeriesPassDone == pass.fn \in {"render_function", "render_error"}

\* the pixels of a pass with at least one failed subsample, each counted once
FailedPixels(p) ==
    COLORING_SCREEN_HEIGHT * Cardinality({x \in DOMAIN p.columns : p.columns[x] > 0})

\* C15: a coloring pass ends with the math-error status raised exactly when
\* more than 1000 pixels failed, each pixel counted once whatever the number
\* of its failed subsamples.
C15_MathErrorPerPixel ==
    ColoringPassDone =>
        ((pass.status = RaiseStatus(STATUS_MATH_ERROR)) <=> (FailedPixels(pass) > 1000))

\* the rows of a pass write the ranges lo(y) .. lo(y) + width - 1 of a buffer
\* of the given size, lo(y) = y * stride + offset_x, one index after the other
WritesRectangle(w, width, height, offset_x, stride, size, row) ==
    /\ DOMAIN w.spans = 0..(height - 1)
    /\ \A y \in 0..(height - 1) :
          /\ w.spans[y] = <<y * stride + offset_x, y * stride + offset_x + width - 1>>
          /\ w.spans[y][1] >= 0 /\ w.spans[y][2] < size
          /\ y > 0 => w.spans[y - 1][2] < w.spans[y][1]
    /\ w.row = [k \in 1..width |-> row * stride + offset_x + (k - 1)]
    /\ w.count = width * height

\* C16: a pass on a loaded buffer writes each pixel of its rectangle once and
\* nothing else: render_function and render_error write the indices
\* y*SCREEN_WIDTH + offset_x + x, 0 <= x < width, 0 <= y < height, all
\* inside the buffer; render_domain_coloring writes the whole screen and
\* returns true, however many evaluations failed.
C16_WritesExactlyTarget ==
    /\ SeriesPassDone =>
          WritesRectangle(pass.writes, pass.width, pass.height, pass.offset_x,
                          SERIES_SCREEN_WIDTH,
                          SERIES_SCREEN_WIDTH * SERIES_SCREEN_HEIGHT, pass.probe.y)
    /\ (pass.fn = "render_domain_coloring" /\ pass.buffer # "NULL") =>
          /\ pass.returned
          /\ WritesRectangle(pass.writes, COLORING_SCREEN_WIDTH,
                             COLORING_SCREEN_HEIGHT, 0, COLORING_SCREEN_WIDTH,
                             COLORING_SCREEN_WIDTH * COLORING_SCREEN_HEIGHT,
                             pass.probe.y)

\* a coloring pass that counted more than 1000 failures and wrote up to the
\* last pixel of the screen
C16_FullPassWithFailures ==
    /\ ColoringPassDone /\ pass.error_count > 1000
    /\ pass.writes.count = COLORING_SCREEN_WIDTH * COLORING_SCREEN_HEIGHT
    /\ pass.writes.spans[COLORING_SCREEN_HEIGHT - 1][2]
          = COLORING_SCREEN_WIDTH * COLORING_SCREEN_HEIGHT - 1

RECURSIVE ChannelSum(_, _, _)
\* the sum of channel ch of the shades of the subsamples ks
ChannelSum(ks, shades, ch) ==
    IF ks = {} THEN 0
    ELSE LET k == CHOOSE j \in ks : TRUE
         IN  shades[(k % Len(shades)) + 1][ch] + ChannelSum(ks \ {k}, shades, ch)

\* the subsamples of the probe pixel whose evaluation succeeded
Succeeded(p) ==
    {k \in 0..(p.aa_level * p.aa_level - 1) :
        ~evaluate_function(
            ColoringArg(p.probe.x, p.probe.y, k % p.aa_level, k \div p.aa_level,
                        p.aa_level, p.args),
            p.args.func_type, FALSE).error}

AverageOf(ks, shades) ==
    Colour(ChannelSum(ks, shades, "r") \div Cardinality(ks),
           ChannelSum(ks, shades, "g") \div Cardinality(ks),
           ChannelSum(ks, shades, "b") \div Cardinality(ks), 255)

\* C17: with anti-alias level L in {1, 2, 4} a pixel gets L*L subsample
\* evaluations; it is magenta exactly when none of them succeeded; otherwise
\* its colour is the average over the successful subsamples alone.
C17_SubsampleAverage ==
    ColoringPassDone =>
        /\ pass.aa_level = pass.args.anti_aliasing
        /\ pass.pixel.evaluated = pass.aa_level * pass.aa_level
        /\ pass.pixel.valid_samples = Cardinality(Succeeded(pass))
        /\ (pass.pixel.color = Magenta) <=> (Succeeded(pass) = {})
        /\ Succeeded(pass) # {} =>
              pass.pixel.color = AverageOf(Succeeded(pass), pass.args.shades)

\* a pixel with failed and successful subsamples at level 4
C17_PartlyFailedPixel ==
    /\ ColoringPassDone /\ pass.aa_level = 4
    /\ pass.pixel.errors > 0 /\ pass.pixel.valid_samples > 0
    /\ pass.pixel.color # Magenta

\* the colours of the ramp of get_error_color
OnRamp(c) ==
    /\ c.a = 255
    /\ \/ c.r = 0 /\ c.b = 255
       \/ c.r = 0 /\ c.g = 255
       \/ c.g = 255 /\ c.b = 0
       \/ c.r = 255 /\ c.b = 0

SeriesFlag(z, p) ==
    IF p.series_type = SERIES_TAYLOR
    THEN eval_taylor_series(z, p.func_type, p.num_terms, FALSE).error
    ELSE eval_laurent_series(z, p.func_type, p.num_terms, FALSE).error

\* C18: in error mode a pixel is magenta exactly when the exact or the series
\* evaluation at its coordinate set the failure flag, and has a colour of the
\* ramp otherwise; a reciprocal pixel with |z| < 1e-10 is magenta under both
\* series kinds and every term count.
C18_ErrorModeSentinel ==
    pass.fn = "render_error" =>
        /\ (pass.pixel.color = Magenta) <=>
              (eval_original_function(pass.pixel.z, pass.params.func_type, FALSE).error
                 \/ SeriesFlag(pass.pixel.z, pass.params))
        /\ pass.pixel.color # Magenta => OnRamp(pass.pixel.color)
        /\ (pass.params.func_type = FUNC_INVERSE /\ pass.pixel.z \in TinySamples) =>
              pass.pixel.color = Magenta

\* the reciprocal at the centre pixel of the default view, z = 0
C18_PoleIsMagenta ==
    /\ pass.fn = "render_error" /\ pass.params.func_type = FUNC_INVERSE
    /\ pass.params.series_type = SERIES_LAURENT /\ pass.params.num_terms = MAX_TERMS
    /\ pass.pixel.z = CZero
    /\ pass.pixel.color = Magenta

-----------------------------------------------------------------------------
(* The status message and the pixel buffer (SpecLive, SpecFaults).         *)

\* a frame of the coloring loop
InColoringLoop == prog = "coloring" /\ run = "loop" /\ run' = "loop"

\* a frame that raised a message: it is active with 5 seconds less the
\* frame's time
StatusRaised ==
    /\ InColoringLoop /\ needsUpdate'
    /\ status_message'.active
    /\ status_message'.status \in {STATUS_MEMORY_ERROR, STATUS_MATH_ERROR}
    /\ \E dt \in FrameTimes : status_message'.display_time = RSub(RInt(5), dt)

\* the state a raising frame leaves behind
JustRaised ==
    /\ prog = "coloring" /\ run = "loop" /\ needsUpdate
    /\ status_message.active
    /\ \E dt \in FrameTimes : status_message.display_time = RSub(RInt(5), dt)

\* a frame that raised nothing takes the frame time off an active message,
\* keeps its kind, and switches it off at zero; an inactive message stays so
StatusRunsDown ==
    (InColoringLoop /\ ~StatusRaised) =>
        /\ status_message.active =>
              \E dt \in FrameTimes :
                 /\ status_message'.display_time = RSub(status_message.display_time, dt)
                 /\ status_message'.status = status_message.status
                 /\ status_message'.active
                       = ~RLeq(status_message'.display_time, RZero)
        /\ ~status_message.active => status_message' = status_message

\* C19: the coloring program holds one status message; raising one replaces
\* kind and time; an active message loses the frame time in every frame that
\* raises nothing; if from some frame on nothing is raised, the message is
\* inactive from some frame on (as long as the loop runs), and an inactive
\* message becomes active only by a raise.
C19_StatusExpires ==
    /\ [][StatusRunsDown]_vars
    /\ (<>[]~JustRaised) => <>[](~status_message.active \/ run # "loop")

\* a memory-error message that has run out
C19_MessageExpired ==
    /\ prog = "coloring" /\ run = "loop"
    /\ status_message.status = STATUS_MEMORY_ERROR
    /\ ~status_message.active /\ RLeq(status_message.display_time, RZero)

\* the renderer called with a NULL buffer and the parameters of the state
NullPass ==
    render_domain_coloring("NULL", coloring, status_message, CentrePixel)

\* C20: a NULL buffer is never rendered into.  A failed allocation at
\* startup ends either program with code 1, without a pass and without the
\* loop; a failed allocation in a dirty frame of the coloring loop skips the
\* pass and raises the memory error; render_domain_coloring given NULL
\* writes nothing, raises the render error and returns false.
C20_NullBufferUntouched ==
    [][/\ (run = "start" /\ pixels' = "NULL") =>
             (run' = "exit" /\ exitCode' = 1 /\ ~rendered')
       /\ rendered' => pixels' \in {"buffer", "freed"}
       /\ (run = "loop" /\ needsUpdate' /\ pixels' = "NULL") =>
             /\ prog = "coloring" /\ ~rendered'
             /\ \E dt \in FrameTimes :
                   status_message' = StatusTick(RaiseStatus(STATUS_MEMORY_ERROR), dt)
       /\ ~NullPass.returned /\ NullPass.writes.count = 0
       /\ NullPass.status = RaiseStatus(STATUS_RENDER_ERROR)]_vars

\* a dirty frame of the coloring loop whose allocation failed
C20_DirtyFrameWithoutBuffer ==
    /\ prog = "coloring" /\ run = "loop" /\ needsUpdate /\ pixels = "NULL"
    /\ ~rendered
    /\ status_message.status = STATUS_MEMORY_ERROR /\ status_message.active

-----------------------------------------------------------------------------
(* Colour parameters and the viewport (Spec).                              *)

\* value + step, held at the bound it would cross
Bounded(value, step, min, max) ==
    IF RLess(RAdd(value, step), min) THEN min
    ELSE IF RLess(max, RAdd(value, step)) THEN max
    ELSE RAdd(value, step)

\* C21: in the coloring program saturation stays in [0, 1] and
\* contrast_strength in [0.2, 5]; a frame whose only event is '[' or ']'
\* moves saturation by 0.1, one whose only event is '-' or '=' moves
\* contrast_strength by 0.2, and a move across a bound ends on the bound.
C21_ColourParametersClamped ==
    prog = "coloring" =>
        LET sat == coloring.saturation
            con == coloring.contrast_strength
        IN  /\ RLeq(RZero, sat) /\ RLeq(sat, RInt(1))
            /\ RLeq(Rat(2, 10), con) /\ RLeq(con, RInt(5))
            /\ ColoringAfter(KeyOnly("LEFT_BRACKET")).saturation
                 = Bounded(sat, Rat(-1, 10), RZero, RInt(1))
            /\ ColoringAfter(KeyOnly("RIGHT_BRACKET")).saturation
                 = Bounded(sat, Rat(1, 10), RZero, RInt(1))
            /\ ColoringAfter(KeyOnly("MINUS")).contrast_strength
                 = Bounded(con, Rat(-2, 10), Rat(2, 10), RInt(5))
            /\ ColoringAfter(KeyOnly("EQUAL")).contrast_strength
                 = Bounded(con, Rat(2, 10), Rat(2, 10), RInt(5))

\* contrast_strength at its upper bound, where '=' leaves it
C21_ContrastAtUpperBound ==
    /\ prog = "coloring" /\ run = "loop" /\ rendered
    /\ coloring.contrast_strength = RInt(5)
    /\ ColoringAfter(KeyOnly("EQUAL")).contrast_strength = RInt(5)

-----------------------------------------------------------------------------
(* The series evaluators against each other (SpecEval).                    *)

RECURSIVE SummedPowerExceeds(_, _, _, _)
\* one of the powers z^k .. z^terms, power being z^k, is above 1e100
SummedPowerExceeds(k, terms, z, power) ==
    IF k > terms THEN FALSE
    ELSE \/ CabsGreater(power, Dbl(1, 100))
         \/ SummedPowerExceeds(k + 1, terms, z, CMul(power, z))

\* a finished call of the exponential Taylor series on a finite argument
TaylorExpCalled ==
    /\ eval.fn = "eval_taylor_series" /\ eval.type = FUNC_EXP
    /\ ~NonFinite(eval.z)

\* C22: the exponential Taylor series reports a failure only when one of
\* the powers z^0 .. z^N that enter the returned sum is above 1e100.
C22_FailureOnlySummedPower ==
    (TaylorExpCalled /\ eval.error) =>
        SummedPowerExceeds(0, eval.terms, eval.z, COne)

\* the same call made to another evaluator
SameCall(fn) == Apply(fn, eval.z, eval.type, eval.terms, eval.before)

\* C23: for the exponential and the sine, eval_laurent_series returns the
\* value and the failure flag eval_taylor_series returns for the same z
\* (finite or not) and the same term count.
C23_LaurentIsTaylorForEntire ==
    (eval.fn = "eval_laurent_series" /\ eval.type \in {FUNC_EXP, FUNC_SIN}) =>
        /\ eval.value = SameCall("eval_taylor_series").value
        /\ eval.error = SameCall("eval_taylor_series").error

\* a Laurent call for the sine with all terms that came back with a sum
C23_LaurentSineSummed ==
    /\ eval.fn = "eval_laurent_series" /\ eval.type = FUNC_SIN
    /\ eval.terms = MAX_TERMS
    /\ ~eval.error /\ eval.value # CZero /\ eval.value # eval.z

\* the selections whose series is the exact function: the reciprocal under
\* either kind, the logarithm under the Laurent kind
ExactSeriesCalled ==
    \/ eval.fn \in {"eval_taylor_series", "eval_laurent_series"}
         /\ eval.type = FUNC_INVERSE
    \/ eval.fn = "eval_laurent_series" /\ eval.type = FUNC_LOG

\* the parameters under which render_error makes the call of the state
\* with n terms
ParamsOfCall(n) ==
    [params EXCEPT !.func_type = eval.type, !.num_terms = n,
                   !.series_type = IF eval.fn = "eval_taylor_series"
                                   THEN SERIES_TAYLOR ELSE SERIES_LAURENT]

\* C24: for the reciprocal under either series kind and the logarithm under
\* the Laurent kind the series evaluator returns the value and the flag of
\* eval_original_function, whatever z and the term count; the loop body of
\* render_error at such a z stores, for every num_terms, magenta if the
\* call failed and otherwise the colour of error magnitude 0.
C24_SeriesIsExact ==
    ExactSeriesCalled =>
        /\ eval.value = SameCall("eval_original_function").value
        /\ eval.error = SameCall("eval_original_function").error
        /\ \A n \in 1..MAX_TERMS :
             /\ Apply(eval.fn, eval.z, eval.type, n, eval.before)
                  = [value |-> eval.value, error |-> eval.error]
             /\ \A probe \in ProbeOutcomes :
                  ErrorPixelAt(eval.z, ParamsOfCall(n), probe).color
                    = IF eval.error THEN Magenta
                      ELSE get_error_color(DZero, FromInt(5), probe.ub)

\* a Laurent call for the logarithm that returned clog(z)
C24_LaurentLogIsClog ==
    /\ eval.fn = "eval_laurent_series" /\ eval.type = FUNC_LOG
    /\ ~eval.error /\ IsLib(eval.value)

-----------------------------------------------------------------------------
(* The split view and the colours (SpecRender).                            *)

\* a finished pass of the split view
SplitPassDone ==
    /\ pass.fn = "render_function"
    /\ pass.width = SERIES_SCREEN_WIDTH \div 2

\* the first and the last column a pass writes in row y
ColumnsOf(w, y) ==
    <<w.spans[y][1] - y * SERIES_SCREEN_WIDTH, w.spans[y][2] - y * SERIES_SCREEN_WIDTH>>

\* the loop variables and parameters with which a pass reaches the buffer
\* index i, and the argument it evaluates there
PassLocals(q, i) ==
    [x |-> (i % SERIES_SCREEN_WIDTH) - q.offset_x, y |-> i \div SERIES_SCREEN_WIDTH,
     width |-> q.width, height |-> q.height, params |-> q.params]
PassArg(q, i) ==
    SeriesArg(PassLocals(q, i).x, PassLocals(q, i).y, q.width, q.height, q.params)

\* the first pass writes the left half of every row and the second the right
\* half, index by index; at matching pixels both have the same loop
\* variables and parameters, and the same z at the pixel looked at
HalvesMatch(left, right, half, y) ==
    /\ left.eval_func = "eval_original_adapter"
    /\ right.eval_func = (IF left.params.series_type = SERIES_TAYLOR
                          THEN "eval_taylor_series" ELSE "eval_laurent_series")
    /\ left.params = right.params
    /\ \A r \in 0..(SERIES_SCREEN_HEIGHT - 1) :
          /\ ColumnsOf(left.writes, r) = <<0, half - 1>>
          /\ ColumnsOf(right.writes, r) = <<half, SERIES_SCREEN_WIDTH - 1>>
    /\ left.writes.count = half * SERIES_SCREEN_HEIGHT
    /\ right.writes.count = half * SERIES_SCREEN_HEIGHT
    /\ \A k \in 1..half :
          /\ left.writes.row[k] = SeriesIndex(k - 1, y, 0)
          /\ right.writes.row[k] = left.writes.row[k] + half
          /\ PassLocals(left, left.writes.row[k]) = PassLocals(right, right.writes.row[k])
    /\ left.pixel.z = right.pixel.z
    /\ left.pixel.z = PassArg(left, SeriesIndex(left.probe.x, y, 0))
    /\ right.pixel.z = PassArg(right, SeriesIndex(left.probe.x + half, y, 0))

\* the state's pass is one of the two, which match
IsSplitHalf(q, both) ==
    /\ q \in {both[1], both[2]}
    /\ HalvesMatch(both[1], both[2], SERIES_SCREEN_WIDTH \div 2, q.probe.y)

\* C25: the two passes of the split view get the same parameters; the first
\* (exact function) writes the columns 0 .. SCREEN_WIDTH/2 - 1 of every row,
\* the second (Taylor or Laurent by series_type) the columns SCREEN_WIDTH/2
\* .. SCREEN_WIDTH - 1, one index after the other, so no index is written by
\* both; and the pixel (x, y) of the first and (x + SCREEN_WIDTH/2, y) of the
\* second are evaluated at the same z.
C25_SplitHalves ==
    SplitPassDone => IsSplitHalf(pass, SplitPasses(pass.params, pass.probe))

\* the right half of a split view away from the origin, where the series
\* failed at the pixel looked at
C25_RightHalfSeriesFailed ==
    /\ SplitPassDone /\ pass.offset_x = SERIES_SCREEN_WIDTH \div 2
    /\ pass.eval_func = "eval_taylor_series"
    /\ pass.pixel.error
    /\ ~SplitPasses(pass.params, pass.probe)[1].pixel.error

-----------------------------------------------------------------------------
(* The colours of the coloring program (Spec).                             *)

\* C26: a coloring pass takes the configured saturation, value and contrast
\* strength as they are, for every saturation the '[' and ']' keys reach, so
\* the pass and the phase legend use the same saturation.
C26_ConfiguredSaturationUsed ==
    (prog = "coloring" /\ rendered) =>
        /\ RenderLocals(coloring).saturation = coloring.saturation
        /\ RenderLocals(coloring).baseValue = coloring.value
        /\ RenderLocals(coloring).contrastStrength = coloring.contrast_strength
        /\ RenderLocals(coloring).saturation = LegendArgs(coloring).saturation

\* magnitudes cabs(result) of successful samples
Magnitudes == {RZero, Rat(1, 2), RInt(1), RInt(3)}

\* C27: the brightness of a successful sample is
\* 0.5 * (1 - 1/(1 + ln(1 + m * k))) in both contrast modes, k being the
\* contrast strength, with a final power below 1 only in enhanced mode; so
\* with enhanced contrast off, a press of '=' or '-' changes the brightness
\* of every sample with m > 0.
C27_ContrastStrengthInBothModes ==
    (prog = "coloring" /\ run = "loop") =>
        \A m \in Magnitudes, key \in {"EQUAL", "MINUS"} :
            LET after == ColoringAfter(KeyOnly(key))
            IN  /\ SampleBrightness(m, after).log_of
                     = RAdd(RInt(1), RMul(m, after.contrast_strength))
                /\ RLess(SampleBrightness(m, after).powf, RInt(1))
                     <=> after.enhanced_contrast
                /\ (RLess(RZero, m) /\ after.contrast_strength # coloring.contrast_strength)
                     => SampleBrightness(m, after) # SampleBrightness(m, coloring)

-----------------------------------------------------------------------------
(* The line stage (SpecLines).                                             *)

\* channel c went from a to out, between a and the target
Toward(a, out, target) ==
    /\ out \in 0..255
    /\ IF target >= a THEN a <= out /\ out <= target
                      ELSE target <= out /\ out <= a

\* colour `to` is colour `from` blended toward the extreme that contrasts
\* with the luminance of `from`, or `from` itself off the line
ContrastBlend(from, to, on_line) ==
    IF ~on_line THEN to = from
    ELSE LET target == IF luminance(from) > 5000 * 255 THEN 0 ELSE 255
         IN  /\ Toward(from.r, to.r, target)
             /\ Toward(from.g, to.g, target)
             /\ Toward(from.b, to.b, target)
             /\ to # from \/ (from.r = target /\ from.g = target /\ from.b = target)
             /\ to.a = from.a

\* C28: in both programs each of the two line functions leaves a colour off
\* the line unchanged and blends a colour on the line toward black if its
\* luminance is above 0.5 and toward white otherwise, every channel staying
\* in 0..255 between the channel before and the target.
C28_LinesContrast ==
    pass.fn = "add_lines" =>
        /\ ContrastBlend(pass.base, pass.phased,
                         pass.call.show_phase_lines /\ pass.call.phase_line)
        /\ ContrastBlend(pass.phased, pass.color,
                         pass.call.show_modulus_lines /\ pass.call.modulus_line)

-----------------------------------------------------------------------------
(* Panning (Spec).                                                         *)

\* the frames whose only event is the held primary button
HoldOnly(inputs) ==
    {in \in inputs : in.mouse.down /\ in.wheel = 0 /\ in.keys = {}}

\* pixels at which the drag is looked at
DragPixels == {<<0, 0>>, <<300, 200>>, <<599, 799>>}

\* after is before panned by delta: only the center moved, by -dx/scale and
\* +dy/scale, and pixel (x + dx, y + dy) now shows what (x, y) showed
PannedBy(before, after, delta, width, height) ==
    /\ after = [before EXCEPT
                  !.centerX = RSub(@, RDiv(RInt(delta[1]), before.scale)),
                  !.centerY = RAdd(@, RDiv(RInt(delta[2]), before.scale))]
    /\ \A px \in DragPixels :
          ViewCoordinate(px[1] + delta[1], px[2] + delta[2], width, height, after)
            = ViewCoordinate(px[1], px[2], width, height, before)

\* C29: a frame whose only event is the held button changes nothing but the
\* center, by -dx/scale and +dy/scale, so that the point under the pointer
\* stays under it; the center changes only when the pointer is above the
\* control strip (y < SCREEN_HEIGHT - 120), never with the pointer on a
\* button.
C29_PanKeepsPointUnderPointer ==
    /\ prog = "series" =>
          \A in \in HoldOnly(SeriesInputs) :
             IF in.mouse.pos[2] < SERIES_SCREEN_HEIGHT - 120
             THEN PannedBy(params, SeriesAfter(in), in.mouse.delta,
                           SERIES_SCREEN_WIDTH \div 2, SERIES_SCREEN_HEIGHT)
             ELSE SeriesAfter(in) = params
    /\ prog = "coloring" =>
          \A in \in HoldOnly(ColoringInputs) :
             IF ColoringAfter(in) # coloring \/ in.mouse.pos = ColoringPoints[1]
             THEN /\ in.mouse.pos[2] < COLORING_SCREEN_HEIGHT - 120
                  /\ PannedBy(coloring, ColoringAfter(in), in.mouse.delta,
                              COLORING_SCREEN_WIDTH, COLORING_SCREEN_HEIGHT)
             ELSE ColoringAfter(in) = coloring

\* a panned series view, where a hold on the Terms button leaves the center
C29_PannedAndHeldOnButton ==
    /\ prog = "series" /\ run = "loop" /\ rendered
    /\ params.centerX # RZero
    /\ \E in \in HoldOnly(SeriesInputs) :
          /\ CheckCollisionPointRec(in.mouse.pos, termButton)
          /\ in.mouse.delta # <<0, 0>>
          /\ SeriesAfter(in) = params

-----------------------------------------------------------------------------
(* The keys of the bilinear program (SpecBilinear).                        *)

InBilinearLoop == prog = "bilinear" /\ run = "loop"

\* what the frame with the given keyboard leaves in a, b, c, d and the flags
BilinearAfter(in) == BilinearHandleInput(bilinear, in)

\* the frame in which toggle key i alone goes down flips its flag and
\* changes nothing else
TogglesOnlyItsFlag(i) ==
    BilinearAfter(KeyPress(ToggleKeys[i][1], FALSE))
      = [bilinear EXCEPT ![ToggleKeys[i][2]] = ~@]

\* a frame in which adjust key i alone is down, newly or held, moves its
\* part of its parameter by one step and changes nothing else
AdjustsOnlyItsPart(i, in) ==
    LET k == AdjustKeys[i]
    IN  BilinearAfter(in)
          = [bilinear EXCEPT
               ![k[2]][k[3]] = RAdd(@, RMul(RInt(k[4]), BilinearStep(in)))]

\* C30: each toggle key (G, C, D, X, L, H) changes only its own visibility
\* flag in the frame it is pressed and leaves a, b, c, d unchanged; each
\* parameter-adjust key changes only the one part of the one parameter it
\* is bound to and no visibility flag.
C30_KeysIndependent ==
    InBilinearLoop =>
       /\ \A i \in 1..Len(ToggleKeys) : TogglesOnlyItsFlag(i)
       /\ \A i \in 1..Len(AdjustKeys), sh \in BOOLEAN :
             /\ AdjustsOnlyItsPart(i, KeyPress(AdjustKeys[i][1], sh))
             /\ AdjustsOnlyItsPart(i, KeyHeld(AdjustKeys[i][1], sh))

====
